---- MODULE Spec2Model ----
(***************************************************************************)
(* Verification model of the dual-channel synchronisation engine of        *)
(* mcp_mattermost: the reaction feed's poll reconciliation, the token      *)
(* bucket rate limiter, the HTTP retry loop with its response handling,    *)
(* and the WebSocket connection loop.                                      *)
(*                                                                         *)
(* Each component has its own specification over the shared variable       *)
(* tuple; the variables of the other components stay parked at their       *)
(* initial values.                                                          *)
(***************************************************************************)
EXTENDS Integers, Sequences, FiniteSets, TLC

VARIABLES
    \* ---- reaction feed (resources/reactions.py, resources/base.py)
    remote,             \* reactions on the server: set of <<post, user, emoji>>
    subscribers,        \* BaseMCPResource._subscribers
    known_reactions,    \* ReactionResource._known_reactions (set of key strings)
    last_poll_time,     \* _last_poll_time is set (TRUE) or None (FALSE)
    current_reactions,  \* local of _poll_for_updates
    pollpc,             \* position of the polling task
    polling_task,       \* _polling_task: "none" or "set"
    poll_cancel,        \* cancel() was called on the live polling task
    stoppc,             \* position of a stop_polling call
    stopped,            \* ghost: stop_polling returned, no start_polling since
    channels_to_poll,   \* channels the for loop of _poll_for_updates has not reached
    posts_to_poll,      \* posts the for loop of _poll_channel_reactions has not reached
    channel_id,         \* channel of the running _poll_channel_reactions call
    post_id,            \* post whose reactions are being fetched
    emitted,            \* calls of emit_update made by the current/last cycle
    cycle,              \* number of cycles started
    mode,               \* scope configuration: "ids", "team" or "none"
    cycleRead,          \* ghost: the cycle so far read every fetch without failure
                        \*        from an unchanged remote state
    lastRead,           \* ghost: remote set fully read by the last ended cycle
    prevRead,           \* ghost: remote set fully read by the cycle before it
    \* ---- rate limiter (api/client.py, RateLimiter)
    now,                \* time.monotonic(), in ticks
    burst,              \* RateLimiter.burst
    ticks_per_token,    \* 1 / requests_per_second, in ticks
    tokens,             \* RateLimiter.tokens, in units of 1/ticks_per_token token
    last_refill,        \* RateLimiter.last_refill
    lock_holder,        \* task sleeping inside "async with self._lock", or NoTask
    lock_waiters,       \* tasks queued on the lock, in arrival order
    rlpc,               \* position of each task that uses the limiter
    wake_at,            \* end of the holder's asyncio.sleep(wait_time)
    entered,            \* ghost: <<time, tokens after refill>> at the holder's entry
    acquired,           \* ghost: log of the acquire() calls that returned
    \* ---- HTTP transport (api/client.py, AsyncHTTPClient)
    max_retries,        \* AsyncHTTPClient.max_retries
    retry_backoff_factor, \* AsyncHTTPClient.retry_backoff_factor
    reqpc,              \* position of the task running request()
    attempt,            \* loop variable of _make_request_with_retries
    last_exception,     \* last_exception is set (TRUE) or None (FALSE)
    http_attempts,      \* number of client.request calls made
    acquire_calls,      \* number of rate_limiter.acquire calls made
    sleeps,             \* arguments of the retry loop's asyncio.sleep calls
    history,            \* ghost: outcome of each client.request call
    retry_result,       \* what _make_request_with_retries returned or raised
    result,             \* what request() returned or raised
    \* ---- connection manager (events/websocket.py, MattermostWebSocketClient)
    auto_reconnect,     \* MattermostWebSocketClient.auto_reconnect
    reconnect_delay,    \* MattermostWebSocketClient.reconnect_delay
    max_reconnect_attempts, \* MattermostWebSocketClient.max_reconnect_attempts
    websocket,          \* _websocket: "none" or "open"
    is_connected,       \* _is_connected
    is_authenticated,   \* _is_authenticated
    reconnect_attempts, \* _reconnect_attempts
    connection_task,    \* _connection_task: "none" or "set"
    wspc,               \* the loop task: "none", finished ("done"), or
                        \* the suspension point the running task is at
    cancel_requested,   \* Task.cancel() called, CancelledError not yet raised
    dpc,                \* disconnect(): "idle", "await_task" or "wakeup"
    event_handlers,     \* _event_handlers: event type -> list of handlers
    inbox,              \* frames the socket has received, not yet read
    auth_outcome,       \* ghost: how the current handshake ended
    ok_reply_arrived,   \* ghost: the OK reply reached the socket in the wait
    last_dispatch,      \* ghost: the last frame handled and the calls made
    connect_raced,      \* ghost: some connect() spawned a loop while a
                        \* disconnect() was suspended
    quiesced,           \* ghost: disconnect() returned, no connect() since
    repeated,           \* ghost: that disconnect() was called in such a state
    task_result,        \* how the last connection task ended
    exit_reason,        \* ghost: why the last connection loop stopped
    attempts_made,      \* ghost: websockets.connect calls of the current loop
                        \* up to its first authentication
    all_failed,         \* ghost: no attempt of the current loop authenticated
    loop_start_attempts, \* ghost: _reconnect_attempts when the loop started
    delays,             \* ghost: backoff delays since the last authentication
    \* ---- update fan-out of a resource (resources/base.py)
    snapshot,           \* ghost: _subscribers when the last emit_update started
    invoked,            \* ghost: callback calls of the last emit_update, in order
    emit_arg,           \* ghost: the update of the last emit_update, or "none"
    emit_error,         \* ghost: the last emit_update raised to its caller
    subscribers_after,  \* ghost: _subscribers when the last emit_update returned
    delivered,          \* ghost: the updates built by the push handlers and
                        \* the poll cycles, in order
    \* ---- post feed snapshot (resources/channel_posts.py)
    channel_ids,        \* self.channel_ids as it is listed, <<>> for None
    team_id,            \* self.team_id is set
    readpc,             \* position of a read() call
    channels_to_read,   \* local of read()
    recent_posts,       \* local of read()
    read_result,        \* what read() returned
    fetched_ok,         \* ghost: channels whose fetch answered with posts
    fetch_failed,       \* ghost: channels whose fetch raised
    \* ---- post feed polling (resources/channel_posts.py)
    last_post_times,    \* self._last_post_times, 0 where the dict has no entry
    server_posts,       \* create_at of the posts the server holds, per channel
    server_clock,       \* the server's clock
    failing_channel,    \* the channel whose every fetch raises
    post_channels,      \* local of _poll_for_updates: channels still to poll
    answered,           \* ghost: the posts each fetch of the cycle answered with
    polled,             \* ghost: channels whose fetch the cycle has awaited
    times_before,       \* ghost: _last_post_times when the cycle started
    created_log,        \* ghost: ids of the posts polling emitted, all cycles
    \* ---- post feed streaming (resources/base.py, resources/channel_posts.py)
    is_streaming,       \* BaseMCPResource._is_streaming
    ws_client,          \* self._ws_client: "none" or "set"
    startpc,            \* position of a start_streaming call
    sstoppc,            \* position of a stop_streaming call
    pending_emits,      \* emit tasks the push handler spawned, not yet run
    stream_stopped,     \* ghost: stop_streaming returned, no start_streaming since
    late_delivery,      \* ghost: an emit task delivered while stream_stopped
    supports_streaming, \* what supports_streaming() returns for the resource
    orphans,            \* clients of earlier hook calls whose loop still runs
    start_outcome,      \* ghost: how the last finished start_streaming ended
    \* ---- polling loop of the base class (resources/base.py)
    interval_seconds,   \* the interval start_polling was called with
    backoff_for         \* ghost: seconds of the last back-off sleep, 0 if none

reactVars == <<remote, subscribers, known_reactions, last_poll_time,
               current_reactions, pollpc, channels_to_poll, posts_to_poll,
               channel_id, post_id, emitted, cycle, mode, cycleRead, lastRead, prevRead,
               polling_task, poll_cancel, stoppc, stopped>>

\* The fields start_polling and stop_polling work on.
pollCtl == <<polling_task, poll_cancel, stoppc, stopped>>

rlVars == <<now, burst, ticks_per_token, tokens, last_refill, lock_holder,
           lock_waiters, rlpc, wake_at, entered, acquired>>

retryVars == <<max_retries, retry_backoff_factor, reqpc, attempt,
              last_exception, http_attempts, acquire_calls, sleeps, history,
              retry_result, result>>

wsVars == <<auto_reconnect, reconnect_delay, max_reconnect_attempts, websocket,
           is_connected, is_authenticated, reconnect_attempts, connection_task,
           wspc, cancel_requested, dpc, event_handlers, inbox, task_result,
           exit_reason, attempts_made, all_failed, loop_start_attempts, delays,
           auth_outcome, ok_reply_arrived, last_dispatch, connect_raced,
           quiesced, repeated>>

emitGhosts == <<snapshot, invoked, emit_arg, emit_error, subscribers_after>>

readVars == <<channel_ids, team_id, readpc, channels_to_read, recent_posts,
             read_result, fetched_ok, fetch_failed>>

postPollVars == <<last_post_times, server_posts, server_clock,
                 failing_channel, post_channels, answered, polled, times_before,
                 created_log>>

\* What only start_streaming and the clients it leaves behind change.
streamAux == <<supports_streaming, orphans, start_outcome>>

streamVars == <<is_streaming, ws_client, startpc, sstoppc, pending_emits,
               stream_stopped, late_delivery, streamAux>>

feedVars == <<emitGhosts, delivered, readVars, postPollVars, streamVars>>

notReadVars == <<reactVars, rlVars, retryVars, wsVars, emitGhosts, delivered,
                 postPollVars, streamVars, interval_seconds, backoff_for>>

\* The reaction feed's fields other than the subscriber set of its base class.
reactRest == <<remote, known_reactions, last_poll_time, current_reactions,
               pollpc, channels_to_poll, posts_to_poll, channel_id, post_id,
               emitted, cycle, mode, cycleRead, lastRead, prevRead,
               polling_task, poll_cancel, stoppc, stopped>>

\* What only the polling loop of the base class reads and writes.
baseLoopVars == <<interval_seconds, backoff_for>>

vars == <<reactVars, rlVars, retryVars, wsVars, feedVars, baseLoopVars>>

\* What the actions of one component leave alone.
notReactVars == <<rlVars, retryVars, wsVars, feedVars, baseLoopVars>>
notRlVars == <<reactVars, retryVars, wsVars, feedVars, baseLoopVars>>
notRetryVars == <<reactVars, burst, ticks_per_token, lock_holder, lock_waiters,
                 rlpc, wake_at, entered, acquired, wsVars, feedVars,
                 baseLoopVars>>
notWsVars == <<reactVars, rlVars, retryVars, feedVars, baseLoopVars>>
notFeedVars == <<reactRest, rlVars, retryVars, wsVars, baseLoopVars>>

----------------------------------------------------------------------------
\* Bounds of the model
MaxCycles == 2
MaxTime == 5
MaxAcquires == 4
MaxRetries == 2
MaxReconnect == 2
MaxHandlers == 2
MaxRestarts == 1
MaxInbox == 2
MaxDelivered == 3
MaxPosts == 2
MaxOrphans == 1

\* interval_seconds = 30.0 in the signature of start_polling.
DefaultInterval == 30

\* The cap of the back-off sleep of the polling loop, in seconds.
PollBackoffCap == 300

\* Identifiers are character sequences, so that the key format and its
\* parsing are computed and not assumed.
Channels == {<<"c", "1">>, <<"c", "2">>}
PostIds == {<<"p", "1">>, <<"p", "2">>}
UserIds == {<<"u", "1">>}
EmojiNames == {<<"o", "k">>, <<"j", "o", "y">>}
Callbacks == {"cb1"}
\* The channels of the post feed's poll model, by number.
PollChannels == {1, 2}
\* Marks a channel whose fetch did not answer in the current cycle: a set
\* that is no set of post timestamps.
NoAnswer == {0}

\* The channel a post lives in (server data).
ChannelOf(p) == IF p = <<"p", "1">> THEN <<"c", "1">> ELSE <<"c", "2">>

\* The reactions users can place: post 1 can carry both emojis, post 2 one.
Reactions ==
    {r \in PostIds \X UserIds \X EmojiNames :
        r[1] = <<"p", "1">> \/ r[3] = <<"o", "k">>}
\* Marks "the cycle did not fully read the remote state": a set that is no
\* set of reactions.
NoRead == {<<<<"n", "o">>, <<"n", "e">>, <<>>>>}

----------------------------------------------------------------------------
\* Each component as constructed.  A specification of one component starts
\* the others in this state and its actions leave them alone.

\* The base loop's interval is the default of start_polling and it never
\* backed off.
ParkedBaseLoop ==
    /\ interval_seconds = DefaultInterval
    /\ backoff_for = 0

ParkedReactionCache ==
    /\ remote = {}
    /\ known_reactions = {}
    /\ last_poll_time = FALSE
    /\ current_reactions = {}
    /\ pollpc = "idle"
    /\ polling_task = "none"
    /\ poll_cancel = FALSE
    /\ stoppc = "idle"
    /\ stopped = FALSE
    /\ channels_to_poll = {}
    /\ posts_to_poll = {}
    /\ channel_id = <<>>
    /\ post_id = <<>>
    /\ emitted = <<>>
    /\ cycle = 0
    /\ mode = "none"
    /\ cycleRead = FALSE
    /\ lastRead = NoRead
    /\ prevRead = NoRead

ParkedReactions ==
    /\ ParkedReactionCache
    /\ subscribers = {}

ParkedRead ==
    /\ channel_ids = <<>>
    /\ team_id = FALSE
    /\ readpc = "idle"
    /\ channels_to_read = <<>>
    /\ recent_posts = <<>>
    /\ read_result = [kind |-> "none", posts |-> <<>>]
    /\ fetched_ok = {}
    /\ fetch_failed = {}

ParkedPostPoll ==
    /\ last_post_times = [c \in PollChannels |-> 0]
    /\ server_posts = [c \in PollChannels |-> {}]
    /\ server_clock = 0
    /\ failing_channel = 1
    /\ post_channels = <<>>
    /\ answered = [c \in PollChannels |-> NoAnswer]
    /\ polled = {}
    /\ times_before = [c \in PollChannels |-> 0]
    /\ created_log = <<>>

ParkedStreaming ==
    /\ is_streaming = FALSE
    /\ ws_client = "none"
    /\ startpc = "idle"
    /\ sstoppc = "idle"
    /\ pending_emits = <<>>
    /\ stream_stopped = FALSE
    /\ late_delivery = FALSE
    /\ supports_streaming = TRUE
    /\ orphans = 0
    /\ start_outcome = "none"

ParkedFeed ==
    /\ snapshot = {}
    /\ invoked = <<>>
    /\ emit_arg = "none"
    /\ emit_error = FALSE
    /\ subscribers_after = {}
    /\ delivered = <<>>
    /\ ParkedRead
    /\ ParkedPostPoll
    /\ ParkedStreaming

ParkedRateLimiter ==
    /\ now = 0
    /\ burst = 1
    /\ ticks_per_token = 1
    /\ tokens = 1
    /\ last_refill = 0
    /\ lock_holder = "none"
    /\ lock_waiters = <<>>
    /\ rlpc = [t \in {"t1", "t2", "t3"} |-> "idle"]
    /\ wake_at = 0
    /\ entered = <<0, 0>>
    /\ acquired = <<>>

ParkedRetry ==
    /\ max_retries = 0
    /\ retry_backoff_factor = 1
    /\ reqpc = "idle"
    /\ attempt = 0
    /\ last_exception = FALSE
    /\ http_attempts = 0
    /\ acquire_calls = 0
    /\ sleeps = <<>>
    /\ history = <<>>
    /\ retry_result =
          [kind |-> "none",
           response |-> [kind |-> "exception", status |-> 0,
                         header |-> [present |-> FALSE, value |-> <<>>]]]
    /\ result = [kind |-> "none", error |-> "", status |-> -1,
                 retry_after |-> -1, slept |-> -1, wrapped |-> FALSE]

ParkedWebSocket ==
    /\ auto_reconnect = TRUE
    /\ reconnect_delay = 5
    /\ max_reconnect_attempts = 0
    /\ websocket = "none"
    /\ is_connected = FALSE
    /\ is_authenticated = FALSE
    /\ reconnect_attempts = 0
    /\ connection_task = "none"
    /\ wspc = "none"
    /\ cancel_requested = FALSE
    /\ dpc = "idle"
    /\ event_handlers = [t \in {"posted", "typing"} |-> <<>>]
    /\ inbox = <<>>
    /\ task_result = "none"
    /\ exit_reason = "none"
    /\ attempts_made = 0
    /\ all_failed = TRUE
    /\ loop_start_attempts = 0
    /\ delays = <<>>
    /\ auth_outcome = "none"
    /\ ok_reply_arrived = FALSE
    /\ last_dispatch = [frame |-> [kind |-> "none", status |-> "",
                                   seq_reply |-> 0, event |-> ""],
                        registered |-> <<>>,
                        calls |-> <<>>]
    /\ connect_raced = FALSE
    /\ quiesced = FALSE
    /\ repeated = FALSE

----------------------------------------------------------------------------
\* Pure helpers

\* Index of the first ":" of s at or after position i (0 when there is none).
RECURSIVE FindColon(_, _)
FindColon(s, i) ==
    IF i > Len(s) THEN 0
    ELSE IF s[i] = ":" THEN i
    ELSE FindColon(s, i + 1)

\* f"{post_id}:{user_id}:{emoji_name}"
ReactionKey(p, u, e) == p \o <<":">> \o u \o <<":">> \o e

\* reaction_key.split(":", 2)
SplitKey(key) ==
    LET i == FindColon(key, 1)
        j == FindColon(key, i + 1)
    IN  <<SubSeq(key, 1, i - 1), SubSeq(key, i + 1, j - 1),
          SubSeq(key, j + 1, Len(key))>>

\* All orders in which a finite set can be iterated.
Orders(S) ==
    {f \in [1..Cardinality(S) -> S] : \A x \in S : \E i \in DOMAIN f : f[i] = x}

----------------------------------------------------------------------------
\* Reaction feed: updates and fan-out

\* emit_update: nothing when there is no subscriber, else every callback of a
\* snapshot of the subscriber set is invoked with the update.  The log entry
\* records the update and the callbacks that received it.
EmitUpdate(log, update) ==
    IF subscribers = {} THEN Append(log, [update EXCEPT !.to = {}])
    ELSE Append(log, [update EXCEPT !.to = subscribers])

\* Variant: the update is built with the removal type.
AddedUpdateWrongType(p, u, e) ==
    [update_type |-> "reaction_removed", post_id |-> p, user_id |-> u,
     emoji_name |-> e, to |-> {}]

AddedUpdate(p, u, e) ==
    [update_type |-> "reaction_added", post_id |-> p, user_id |-> u,
     emoji_name |-> e, to |-> {}]

RemovedUpdate(key) ==
    LET parts == SplitKey(key)
    IN  [update_type |-> "reaction_removed", post_id |-> parts[1],
         user_id |-> parts[2], emoji_name |-> parts[3], to |-> {}]

\* Variant: the operands of the set difference are swapped.
RemovedReactionsSwapped(known, current) == current \ known

\* The keys the removal detection reports: known before, not seen now.
RemovedReactions(known, current) == known \ current

\* Variant: every fetched reaction counts as new.
IsNewReactionAlways(key) == TRUE

\* "if reaction_key not in self._known_reactions"
IsNewReaction(key) == key \notin known_reactions

\* The body of "for reaction in reactions_data" over the reactions in the
\* order the server listed them, from position i on: <<current, log>>.
RECURSIVE ScanReactions(_, _, _, _)
ScanReactions(order, i, cur, log) ==
    IF i > Len(order) THEN <<cur, log>>
    ELSE LET r == order[i]
             key == ReactionKey(r[1], r[2], r[3])
         IN  ScanReactions(order, i + 1, cur \cup {key},
                           IF IsNewReaction(key)
                           THEN EmitUpdate(log, AddedUpdate(r[1], r[2], r[3]))
                           ELSE log)

\* Variant: the removals are reported ahead of what the cycle has emitted.
RemovalsInFront(order, i, log) ==
    [k \in 1..Len(order) |->
        [RemovedUpdate(order[k]) EXCEPT !.to = subscribers]] \o log

\* The removal loop over the removed keys in iteration order, from i on.
RECURSIVE EmitRemovals(_, _, _)
EmitRemovals(order, i, log) ==
    IF i > Len(order) THEN log
    ELSE EmitRemovals(order, i + 1, EmitUpdate(log, RemovedUpdate(order[i])))

\* The reactions in scope of the configured channels.
ScopeRemote == IF mode = "none" THEN {} ELSE remote

----------------------------------------------------------------------------
\* Reaction feed: the poll cycle, one action per suspension point

\* Variant: the cycle's keys are added to the cache.
KnownMerged(cur) == known_reactions \cup cur

\* self._known_reactions = current_reactions
KnownAfterCycle(cur) == cur

\* End of _poll_for_updates after the channel loop (removal detection, cache
\* replacement), followed by the base loop's bookkeeping and its next sleep.
FinishCycle(cur, log, ok) ==
    /\ \E order \in Orders(IF last_poll_time
                           THEN RemovedReactions(known_reactions, cur)
                           ELSE {}) :
          emitted' = EmitRemovals(order, 1, log)
    /\ known_reactions' = KnownAfterCycle(cur)
    /\ current_reactions' = {}
    /\ last_poll_time' = TRUE
    /\ pollpc' = "sleep"
    /\ channels_to_poll' = {}
    /\ posts_to_poll' = {}
    /\ channel_id' = <<>>
    /\ post_id' = <<>>
    /\ prevRead' = lastRead
    /\ lastRead' = IF ok THEN ScopeRemote ELSE NoRead
    /\ cycleRead' = ok

\* Head of "for channel_id in channels_to_poll": the next channel's post
\* fetch is awaited, or the loop is over.
EnterChannelLoop(chs, cur, log, ok) ==
    IF chs = {} THEN FinishCycle(cur, log, ok)
    ELSE /\ \E c \in chs :
              /\ channel_id' = c
              /\ channels_to_poll' = chs \ {c}
         /\ pollpc' = "fetch_posts"
         /\ current_reactions' = cur
         /\ emitted' = log
         /\ cycleRead' = ok
         /\ posts_to_poll' = {}
         /\ UNCHANGED <<known_reactions, last_poll_time, post_id, lastRead, prevRead>>

\* Head of "for post_data in posts_data['posts'].values()".
EnterPostLoop(ps, cur, log, ok) ==
    IF ps = {} THEN EnterChannelLoop(channels_to_poll, cur, log, ok)
    ELSE /\ \E p \in ps :
              /\ post_id' = p
              /\ posts_to_poll' = ps \ {p}
         /\ pollpc' = "fetch_reactions"
         /\ current_reactions' = cur
         /\ emitted' = log
         /\ cycleRead' = ok
         /\ UNCHANGED <<known_reactions, last_poll_time, channel_id,
                        channels_to_poll, lastRead, prevRead>>

\* "self._polling_task and not self._polling_task.done()"
PollingTaskLive == polling_task = "set" /\ pollpc # "idle"

pollData == <<remote, subscribers, known_reactions, last_poll_time,
              current_reactions, channels_to_poll, posts_to_poll, channel_id,
              post_id, emitted, cycle, mode>>

\* start_polling: returns at once while the recorded task is running, else
\* spawns a polling loop and records its task.  One loop is followed at a
\* time: a spawn waits until the previous loop has ended.
StartPolling ==
    /\ UNCHANGED notReactVars
    /\ stopped' = FALSE
    /\ IF PollingTaskLive
       THEN UNCHANGED <<pollpc, polling_task>>
       ELSE /\ pollpc = "idle"
            /\ pollpc' = "sleep"
            /\ polling_task' = "set"
    /\ UNCHANGED <<poll_cancel, stoppc, cycleRead, lastRead, prevRead>>
    /\ UNCHANGED pollData

\* stop_polling up to its first suspension: with a running task it requests
\* the cancellation and awaits the task; otherwise it returns having done
\* nothing.
StopPollingCall ==
    IF PollingTaskLive
    THEN /\ poll_cancel' = TRUE
         /\ stoppc' = "await_task"
         /\ UNCHANGED <<polling_task, stopped>>
    ELSE /\ stopped' = TRUE
         /\ UNCHANGED <<polling_task, poll_cancel, stoppc>>

StopPolling ==
    /\ UNCHANGED notReactVars
    /\ stoppc = "idle"
    /\ StopPollingCall
    /\ UNCHANGED <<pollpc, cycleRead, lastRead, prevRead>>
    /\ UNCHANGED pollData

\* The cancellation reaches the loop at its suspension point: CancelledError
\* leaves the loop and the task is done; the awaiting stop_polling becomes
\* runnable.
PollCancelled ==
    /\ UNCHANGED notReactVars
    /\ poll_cancel
    /\ pollpc # "idle"
    /\ pollpc' = "idle"
    /\ poll_cancel' = FALSE
    /\ stoppc' = IF stoppc = "await_task" THEN "wakeup" ELSE stoppc
    /\ IF pollpc = "sleep"
       THEN UNCHANGED <<lastRead, prevRead, cycleRead>>
       ELSE /\ prevRead' = lastRead
            /\ lastRead' = NoRead
            /\ cycleRead' = FALSE
    /\ UNCHANGED <<polling_task, stopped>>
    /\ UNCHANGED pollData

\* stop_polling resumes after the awaited task ended: CancelledError is
\* swallowed, the task field is cleared, the call returns.
StopPollingResumes ==
    /\ UNCHANGED notReactVars
    /\ stoppc = "wakeup"
    /\ stoppc' = "idle"
    /\ polling_task' = "none"
    /\ stopped' = TRUE
    /\ UNCHANGED <<pollpc, poll_cancel, cycleRead, lastRead, prevRead>>
    /\ UNCHANGED pollData

\* Every cycle is run, with or without subscribers.
PollAlways(subs) == TRUE

\* "if not self._subscribers: continue" read the other way: the cycle runs.
ShouldPoll(subs) == subs # {}

\* The interval sleep ends with no subscriber: the cycle is skipped.
PollSkip ==
    /\ UNCHANGED notReactVars
    /\ ~poll_cancel
    /\ pollpc = "sleep"
    /\ ~ShouldPoll(subscribers)
    /\ UNCHANGED reactVars

\* The interval sleep ends with subscribers: _poll_for_updates starts.
PollWake ==
    /\ UNCHANGED notReactVars
    /\ ~poll_cancel
    /\ UNCHANGED pollCtl
    /\ pollpc = "sleep"
    /\ ShouldPoll(subscribers)
    /\ cycle < MaxCycles
    /\ cycle' = cycle + 1
    /\ IF mode = "team"
       THEN /\ pollpc' = "fetch_channels"
            /\ current_reactions' = {}
            /\ emitted' = <<>>
            /\ cycleRead' = TRUE
            /\ channels_to_poll' = {}
            /\ posts_to_poll' = {}
            /\ UNCHANGED <<known_reactions, last_poll_time, channel_id,
                           post_id, lastRead, prevRead>>
       ELSE EnterChannelLoop(IF mode = "ids" THEN Channels ELSE {},
                             {}, <<>>, TRUE)
    /\ UNCHANGED <<remote, subscribers, mode>>

\* GET /teams/{team_id}/channels answers.
FetchChannelsOk ==
    /\ UNCHANGED notReactVars
    /\ ~poll_cancel
    /\ UNCHANGED pollCtl
    /\ pollpc = "fetch_channels"
    /\ EnterChannelLoop(Channels, current_reactions, emitted, cycleRead)
    /\ UNCHANGED <<remote, subscribers, cycle, mode>>

\* GET /teams/{team_id}/channels raises: the outer handler logs it, the cache
\* is left alone, and the base loop records the poll time.
FetchChannelsFail ==
    /\ UNCHANGED notReactVars
    /\ ~poll_cancel
    /\ UNCHANGED pollCtl
    /\ pollpc = "fetch_channels"
    /\ pollpc' = "sleep"
    /\ last_poll_time' = TRUE
    /\ cycleRead' = FALSE
    /\ prevRead' = lastRead
    /\ lastRead' = NoRead
    /\ UNCHANGED <<remote, subscribers, known_reactions, current_reactions,
                   channels_to_poll, posts_to_poll, channel_id, post_id,
                   emitted, cycle, mode>>

\* GET /channels/{channel_id}/posts answers with the channel's posts.
FetchPostsOk ==
    /\ UNCHANGED notReactVars
    /\ ~poll_cancel
    /\ UNCHANGED pollCtl
    /\ pollpc = "fetch_posts"
    /\ EnterPostLoop({p \in PostIds : ChannelOf(p) = channel_id},
                     current_reactions, emitted, cycleRead)
    /\ UNCHANGED <<remote, subscribers, cycle, mode>>

\* GET /channels/{channel_id}/posts raises or answers without "posts": the
\* channel is skipped.
FetchPostsFail ==
    /\ UNCHANGED notReactVars
    /\ ~poll_cancel
    /\ UNCHANGED pollCtl
    /\ pollpc = "fetch_posts"
    /\ EnterChannelLoop(channels_to_poll, current_reactions, emitted, FALSE)
    /\ UNCHANGED <<remote, subscribers, cycle, mode>>

\* GET /posts/{post_id}/reactions answers with the post's reactions.
FetchReactionsOk ==
    /\ UNCHANGED notReactVars
    /\ ~poll_cancel
    /\ UNCHANGED pollCtl
    /\ pollpc = "fetch_reactions"
    /\ \E order \in Orders({r \in remote : r[1] = post_id}) :
          LET res == ScanReactions(order, 1, current_reactions, emitted)
          IN  EnterPostLoop(posts_to_poll, res[1], res[2], cycleRead)
    /\ UNCHANGED <<remote, subscribers, cycle, mode>>

\* GET /posts/{post_id}/reactions raises: the post is skipped.
FetchReactionsFail ==
    /\ UNCHANGED notReactVars
    /\ ~poll_cancel
    /\ UNCHANGED pollCtl
    /\ pollpc = "fetch_reactions"
    /\ EnterPostLoop(posts_to_poll, current_reactions, emitted, FALSE)
    /\ UNCHANGED <<remote, subscribers, cycle, mode>>

\* subscribe(callback)
Subscribe ==
    /\ UNCHANGED notReactVars
    /\ UNCHANGED pollCtl
    /\ \E cb \in Callbacks \ subscribers : subscribers' = subscribers \cup {cb}
    /\ UNCHANGED <<remote, known_reactions, last_poll_time, current_reactions,
                   pollpc, channels_to_poll, posts_to_poll, channel_id, post_id,
                   emitted, cycle, mode, cycleRead, lastRead, prevRead>>

\* unsubscribe(callback)
Unsubscribe ==
    /\ UNCHANGED notReactVars
    /\ UNCHANGED pollCtl
    /\ \E cb \in subscribers : subscribers' = subscribers \ {cb}
    /\ UNCHANGED <<remote, known_reactions, last_poll_time, current_reactions,
                   pollpc, channels_to_poll, posts_to_poll, channel_id, post_id,
                   emitted, cycle, mode, cycleRead, lastRead, prevRead>>

\* Users add and remove reactions on the server at any time.
RemoteChange ==
    /\ UNCHANGED notReactVars
    /\ UNCHANGED pollCtl
    /\ \E r \in Reactions :
          remote' = IF r \in remote THEN remote \ {r} ELSE remote \cup {r}
    /\ cycleRead' = IF pollpc \in {"idle", "sleep"} THEN cycleRead ELSE FALSE
    /\ UNCHANGED <<subscribers, known_reactions, last_poll_time,
                   current_reactions, pollpc, channels_to_poll, posts_to_poll,
                   channel_id, post_id, emitted, cycle, mode, lastRead, prevRead>>

InitReactions ==
    /\ ParkedBaseLoop
    /\ remote \in SUBSET Reactions
    /\ subscribers = {}
    /\ known_reactions = {}
    /\ last_poll_time = FALSE
    /\ current_reactions = {}
    /\ pollpc = "idle"
    /\ polling_task = "none"
    /\ poll_cancel = FALSE
    /\ stoppc = "idle"
    /\ stopped = FALSE
    /\ channels_to_poll = {}
    /\ posts_to_poll = {}
    /\ channel_id = <<>>
    /\ post_id = <<>>
    /\ emitted = <<>>
    /\ cycle = 0
    /\ mode \in {"ids", "team", "none"}
    /\ cycleRead = FALSE
    /\ lastRead = NoRead
    /\ prevRead = NoRead
    /\ ParkedRateLimiter
    /\ ParkedRetry
    /\ ParkedWebSocket
    /\ ParkedFeed

NextReactions ==
    \/ StartPolling
    \/ StopPolling
    \/ PollCancelled
    \/ StopPollingResumes
    \/ PollSkip
    \/ PollWake
    \/ FetchChannelsOk
    \/ FetchChannelsFail
    \/ FetchPostsOk
    \/ FetchPostsFail
    \/ FetchReactionsOk
    \/ FetchReactionsFail
    \/ Subscribe
    \/ Unsubscribe
    \/ RemoteChange

SpecReactions == InitReactions /\ [][NextReactions]_vars

\* The reaction feed against a server whose reactions do not change: every
\* reaction of the initial remote state exists throughout.
NextReactionsSteady ==
    \/ StartPolling
    \/ StopPolling
    \/ PollCancelled
    \/ StopPollingResumes
    \/ PollSkip
    \/ PollWake
    \/ FetchChannelsOk
    \/ FetchChannelsFail
    \/ FetchPostsOk
    \/ FetchPostsFail
    \/ FetchReactionsOk
    \/ FetchReactionsFail
    \/ Subscribe
    \/ Unsubscribe

SpecReactionsSteady == InitReactions /\ [][NextReactionsSteady]_vars

----------------------------------------------------------------------------
\* Polling loop of the base class (resources/base.py), with the hook
\* _poll_for_updates left abstract: its call suspends once and then returns
\* or raises.

\* Intervals start_polling is called with, in seconds.
IntervalChoices == {1, DefaultInterval, 150, 200}

\* The back-off sleep without its cap.
BackoffDoubled(interval) == interval * 2

\* min(interval_seconds * 2, 300)
BackoffSeconds(interval) ==
    IF interval * 2 < PollBackoffCap THEN interval * 2 ELSE PollBackoffCap

\* What a step of the loop around the hook leaves alone.
hookFrame == <<remote, subscribers, known_reactions, current_reactions,
               channels_to_poll, posts_to_poll, channel_id, post_id, emitted,
               mode, cycleRead, lastRead, prevRead, pollCtl, interval_seconds>>

\* The interval sleep ends with a subscriber: _poll_for_updates is called
\* and suspends in its first transport call.
HookWake ==
    /\ UNCHANGED <<rlVars, retryVars, wsVars, feedVars>>
    /\ pollpc = "sleep"
    /\ ~poll_cancel
    /\ ShouldPoll(subscribers)
    /\ cycle < MaxCycles
    /\ cycle' = cycle + 1
    /\ pollpc' = "hook"
    /\ UNCHANGED <<hookFrame, last_poll_time, backoff_for>>

\* The hook returns: the poll time is recorded and the loop sleeps again.
HookReturns ==
    /\ UNCHANGED <<rlVars, retryVars, wsVars, feedVars>>
    /\ pollpc = "hook"
    /\ ~poll_cancel
    /\ last_poll_time' = TRUE
    /\ pollpc' = "sleep"
    /\ UNCHANGED <<hookFrame, cycle, backoff_for>>

\* The hook raises an Exception: "except Exception" logs it and sleeps the
\* back-off; the poll time is not recorded.
HookRaises ==
    /\ UNCHANGED <<rlVars, retryVars, wsVars, feedVars>>
    /\ pollpc = "hook"
    /\ ~poll_cancel
    /\ pollpc' = "backoff"
    /\ backoff_for' = BackoffSeconds(interval_seconds)
    /\ UNCHANGED <<hookFrame, cycle, last_poll_time>>

\* The back-off sleep ends: "while True" starts over with the interval sleep.
BackoffEnds ==
    /\ UNCHANGED <<rlVars, retryVars, wsVars, feedVars>>
    /\ pollpc = "backoff"
    /\ ~poll_cancel
    /\ pollpc' = "sleep"
    /\ UNCHANGED <<hookFrame, cycle, last_poll_time, backoff_for>>

InitPollLoop ==
    /\ ParkedReactionCache
    /\ subscribers = {}
    /\ interval_seconds \in IntervalChoices
    /\ backoff_for = 0
    /\ ParkedRateLimiter
    /\ ParkedRetry
    /\ ParkedWebSocket
    /\ ParkedFeed

NextPollLoop ==
    \/ StartPolling
    \/ StopPolling
    \/ PollCancelled
    \/ StopPollingResumes
    \/ PollSkip
    \/ Subscribe
    \/ Unsubscribe
    \/ HookWake
    \/ HookReturns
    \/ HookRaises
    \/ BackoffEnds

SpecPollLoop == InitPollLoop /\ [][NextPollLoop]_vars

\* A cancellation requested with Task.cancel() is delivered when the task is
\* next scheduled, which the event loop does.
SpecPollLoopFair == SpecPollLoop /\ WF_vars(PollCancelled)

----------------------------------------------------------------------------
\* Rate limiter: a token bucket behind an asyncio.Lock.
\*
\* Time is counted in ticks and the bucket in units of 1/ticks_per_token of a
\* token, so that the refill rate is exactly one unit per tick and every
\* wait time is a whole number of ticks.

Tasks == {"t1", "t2", "t3"}
NoTask == "none"
BurstChoices == {1, 2}
RateChoices == {1, 2}

Min(a, b) == IF a <= b THEN a ELSE b

\* One whole token, in bucket units.
OneToken == ticks_per_token

\* Variant: the refill is not capped at burst.
RefillUncapped(tok, elapsed) == tok + elapsed

\* min(float(burst), tokens + elapsed * requests_per_second)
Refill(tok, elapsed) == Min(burst * OneToken, tok + elapsed)

\* Variant: the difference is taken the wrong way round.
WaitTimeNegated(tok) == tok - OneToken

\* (1 - tokens) / requests_per_second
WaitTime(tok) == OneToken - tok

\* The token count the sleeping branch leaves behind.
TokensAfterWait == 0

\* The body of "async with self._lock" run by task t up to its return or its
\* sleep; the lock is released on return.
EnterCriticalSection(t) ==
    LET tok == Refill(tokens, now - last_refill)
    IN  /\ last_refill' = now
        /\ IF tok >= OneToken
           THEN /\ tokens' = tok - OneToken
                /\ rlpc' = [rlpc EXCEPT ![t] = "idle"]
                /\ lock_holder' = NoTask
                /\ acquired' = Append(acquired,
                      [task |-> t, entered |-> now, returned |-> now,
                       remainder |-> tok, slept |-> FALSE])
                /\ UNCHANGED <<wake_at, entered>>
           ELSE /\ tokens' = tok
                /\ rlpc' = [rlpc EXCEPT ![t] = "sleeping"]
                /\ lock_holder' = t
                /\ wake_at' = now + WaitTime(tok)
                /\ entered' = <<now, tok>>
                /\ UNCHANGED acquired

\* Variant: a caller takes the lock whenever it is not held.
LockNotHeld == lock_holder = NoTask

\* "async with self._lock" enters without waiting: the lock is not held and
\* no earlier caller waits for it.
LockAvailable == lock_holder = NoTask /\ lock_waiters = <<>>

\* A task calls acquire(): it takes the free lock at once, or queues.
AcquireCall ==
    /\ \E t \in Tasks :
          /\ rlpc[t] = "idle"
          /\ Len(acquired) + Cardinality({u \in Tasks : rlpc[u] # "idle"})
                < MaxAcquires
          /\ IF LockAvailable
             THEN /\ EnterCriticalSection(t)
                  /\ UNCHANGED lock_waiters
             ELSE /\ lock_waiters' = Append(lock_waiters, t)
                  /\ rlpc' = [rlpc EXCEPT ![t] = "queued"]
                  /\ UNCHANGED <<tokens, last_refill, lock_holder, wake_at,
                                 entered, acquired>>
    /\ UNCHANGED <<now, burst, ticks_per_token>>
    /\ UNCHANGED notRlVars

\* The released lock is handed to the first queued task, which runs.
WaiterEnters ==
    /\ lock_holder = NoTask
    /\ lock_waiters # <<>>
    /\ EnterCriticalSection(Head(lock_waiters))
    /\ lock_waiters' = Tail(lock_waiters)
    /\ UNCHANGED <<now, burst, ticks_per_token>>
    /\ UNCHANGED notRlVars

\* The holder's sleep is over: it zeroes the bucket, releases and returns.
SleepEnds ==
    /\ lock_holder # NoTask
    /\ now >= wake_at
    /\ tokens' = TokensAfterWait
    /\ rlpc' = [rlpc EXCEPT ![lock_holder] = "idle"]
    /\ acquired' = Append(acquired,
          [task |-> lock_holder, entered |-> entered[1], returned |-> now,
           remainder |-> entered[2], slept |-> TRUE])
    /\ lock_holder' = NoTask
    /\ UNCHANGED <<now, burst, ticks_per_token, last_refill, lock_waiters,
                   wake_at, entered>>
    /\ UNCHANGED notRlVars

\* Time passes.
Tick ==
    /\ now < MaxTime
    /\ now' = now + 1
    /\ UNCHANGED <<burst, ticks_per_token, tokens, last_refill, lock_holder,
                   lock_waiters, rlpc, wake_at, entered, acquired>>
    /\ UNCHANGED notRlVars

\* RateLimiter.__init__
InitRateLimiter ==
    /\ ParkedBaseLoop
    /\ now = 0
    /\ burst \in BurstChoices
    /\ ticks_per_token \in RateChoices
    /\ tokens = burst * ticks_per_token
    /\ last_refill = 0
    /\ lock_holder = NoTask
    /\ lock_waiters = <<>>
    /\ rlpc = [t \in Tasks |-> "idle"]
    /\ wake_at = 0
    /\ entered = <<0, 0>>
    /\ acquired = <<>>
    /\ ParkedReactions
    /\ ParkedRetry
    /\ ParkedWebSocket
    /\ ParkedFeed

NextRateLimiter ==
    \/ AcquireCall
    \/ WaiterEnters
    \/ SleepEnds
    \/ Tick

SpecRateLimiter == InitRateLimiter /\ [][NextRateLimiter]_vars

----------------------------------------------------------------------------
\* HTTP transport: request(), its retry loop and its response handling, run
\* by one task against the rate limiter.  Time advances by the sleeps the
\* task makes and by the latency of each HTTP exchange.

\* self.retry_on_status, by default
RetryOnStatus == {429, 500, 502, 503, 504}

\* Status codes the server answers with: one or more for every branch of
\* create_http_exception, and a success.
StatusCodes == {200, 400, 401, 403, 404, 409, 418, 429, 500, 503, 599, 600}

BackoffChoices == {1, 3}
LatencyChoices == {0, 1}

\* The value of an attribute or header that is None.
NoneValue == -1

\* response.headers.get("Retry-After"): absent, or the header's text.
NoHeader == [present |-> FALSE, value |-> <<>>]
RetryAfterHeaders ==
    {NoHeader,
     [present |-> TRUE, value |-> <<"3", "0">>],
     [present |-> TRUE, value |-> <<"7">>],
     [present |-> TRUE, value |-> <<"s", "o", "o", "n">>]}

\* What client.request can produce.
Responses ==
    {[kind |-> "response", status |-> st, header |-> h] :
        st \in StatusCodes, h \in RetryAfterHeaders}
NetworkError == [kind |-> "exception", status |-> 0, header |-> NoHeader]

\* Responses as servers send them: Retry-After accompanies only a 429.
ServerAnswers == {r \in Responses : r.status # 429 => r.header = NoHeader}

RECURSIVE Pow2(_)
Pow2(n) == IF n = 0 THEN 1 ELSE 2 * Pow2(n - 1)

Digit(c) ==
    CASE c = "0" -> 0 [] c = "1" -> 1 [] c = "2" -> 2 [] c = "3" -> 3
      [] c = "4" -> 4 [] c = "5" -> 5 [] c = "6" -> 6 [] c = "7" -> 7
      [] c = "8" -> 8 [] c = "9" -> 9 [] OTHER -> NoneValue

RECURSIVE Decimal(_, _)
Decimal(v, n) == IF n = 0 THEN 0 ELSE 10 * Decimal(v, n - 1) + Digit(v[n])

\* float(text) for the texts above: a number, or ValueError.
ParseFloat(v) ==
    IF v = <<>> \/ \E i \in DOMAIN v : Digit(v[i]) = NoneValue
    THEN [ok |-> FALSE, value |-> 0]
    ELSE [ok |-> TRUE, value |-> Decimal(v, Len(v))]

\* Truthiness of headers.get(...): None and "" are falsy.
Truthy(h) == h.present /\ h.value # <<>>

\* Variant: the exponent starts at one.
BackoffWaitFromOne(a) == retry_backoff_factor * Pow2(a + 1)

\* self.retry_backoff_factor * (2**attempt)
BackoffWait(a) == retry_backoff_factor * Pow2(a)

\* "attempt < self.max_retries and response.status_code in self.retry_on_status"
ShouldRetryStatus(a, status) == a < max_retries /\ status \in RetryOnStatus

\* "if attempt < self.max_retries" of the exception handler
ShouldRetryException(a) == a < max_retries

\* Variant: every status gets the generic error.
CreateHttpExceptionGeneric(resp) ==
    [kind |-> "raise", error |-> "HTTPError", status |-> resp.status,
     retry_after |-> NoneValue, slept |-> NoneValue, wrapped |-> FALSE]

\* create_http_exception: the typed error for a status code.
CreateHttpException(resp) ==
    LET st == resp.status
        parsed == ParseFloat(resp.header.value)
        err(name, ra) == [kind |-> "raise", error |-> name, status |-> st,
                          retry_after |-> ra, slept |-> NoneValue,
                          wrapped |-> FALSE]
    IN  IF st = 400 THEN err("ValidationError", NoneValue)
        ELSE IF st = 401 THEN err("AuthenticationError", NoneValue)
        ELSE IF st = 403 THEN err("AuthorizationError", NoneValue)
        ELSE IF st = 404 THEN err("NotFoundError", NoneValue)
        ELSE IF st = 409 THEN err("ConflictError", NoneValue)
        ELSE IF st = 429
             THEN err("RateLimitError",
                      IF Truthy(resp.header) /\ parsed.ok
                      THEN parsed.value ELSE NoneValue)
        ELSE IF 500 <= st /\ st < 600 THEN err("ServerError", NoneValue)
        ELSE err("HTTPError", NoneValue)

\* The seconds _handle_response sleeps before raising for a 429.
CourtesySleep(resp) ==
    IF Truthy(resp.header) /\ ParseFloat(resp.header.value).ok
    THEN ParseFloat(resp.header.value).value
    ELSE NoneValue

\* _handle_response: what request() returns or raises for the final response.
HandleResponse(resp) ==
    IF resp.status = 429
    THEN [kind |-> "raise", error |-> "RateLimitError", status |-> 429,
          retry_after |-> NoneValue, slept |-> CourtesySleep(resp),
          wrapped |-> FALSE]
    ELSE IF resp.status = 401
    THEN [kind |-> "raise", error |-> "AuthenticationError", status |-> 401,
          retry_after |-> NoneValue, slept |-> NoneValue, wrapped |-> FALSE]
    ELSE IF resp.status >= 400 THEN CreateHttpException(resp)
    ELSE [kind |-> "return", error |-> "", status |-> resp.status,
          retry_after |-> NoneValue, slept |-> NoneValue, wrapped |-> FALSE]

\* HTTPError("Request failed after N retries ...") raised by the retry loop
\* and passed on by request().
WrappedError ==
    [kind |-> "raise", error |-> "HTTPError", status |-> NoneValue,
     retry_after |-> NoneValue, slept |-> NoneValue, wrapped |-> TRUE]

\* request() is called: URL, headers and body are prepared and the retry loop
\* starts with its first rate limiter call.
RequestStart ==
    /\ reqpc = "idle"
    /\ reqpc' = "acquire"
    /\ attempt' = 0
    /\ last_exception' = FALSE
    /\ UNCHANGED <<max_retries, retry_backoff_factor, http_attempts,
                   acquire_calls, sleeps, history, retry_result, result>>
    /\ UNCHANGED <<now, tokens, last_refill>>
    /\ UNCHANGED notRetryVars

\* await self.rate_limiter.acquire(), the lock being free: refill, then
\* consume a token or sleep for one.
RetryAcquire ==
    /\ reqpc = "acquire"
    /\ LET tok == Refill(tokens, now - last_refill)
       IN  /\ last_refill' = now
           /\ IF tok >= OneToken
              THEN /\ tokens' = tok - OneToken
                   /\ now' = now
              ELSE /\ tokens' = TokensAfterWait
                   /\ now' = now + WaitTime(tok)
    /\ acquire_calls' = acquire_calls + 1
    /\ reqpc' = "send"
    /\ UNCHANGED <<max_retries, retry_backoff_factor, attempt, last_exception,
                   http_attempts, sleeps, history, retry_result, result>>
    /\ UNCHANGED notRetryVars

\* client.request answers with a response.
SendAnswered ==
    /\ reqpc = "send"
    /\ \E resp \in ServerAnswers : \E d \in LatencyChoices :
          /\ history' = Append(history, resp)
          /\ IF ShouldRetryStatus(attempt, resp.status)
             THEN /\ sleeps' = Append(sleeps, BackoffWait(attempt))
                  /\ now' = now + d + BackoffWait(attempt)
                  /\ attempt' = attempt + 1
                  /\ reqpc' = "acquire"
                  /\ UNCHANGED <<retry_result, result>>
             ELSE /\ retry_result' = [kind |-> "response", response |-> resp]
                  /\ result' = HandleResponse(resp)
                  /\ now' = now + d
                         + (IF HandleResponse(resp).slept = NoneValue THEN 0
                            ELSE HandleResponse(resp).slept)
                  /\ reqpc' = "done"
                  /\ UNCHANGED <<sleeps, attempt>>
    /\ http_attempts' = http_attempts + 1
    /\ UNCHANGED <<max_retries, retry_backoff_factor, last_exception,
                   acquire_calls, tokens, last_refill>>
    /\ UNCHANGED notRetryVars

\* client.request raises httpx.RequestError (network failure or timeout).
SendFailed ==
    /\ reqpc = "send"
    /\ \E d \in LatencyChoices :
          /\ history' = Append(history, NetworkError)
          /\ last_exception' = TRUE
          /\ IF ShouldRetryException(attempt)
             THEN /\ sleeps' = Append(sleeps, BackoffWait(attempt))
                  /\ now' = now + d + BackoffWait(attempt)
                  /\ attempt' = attempt + 1
                  /\ reqpc' = "acquire"
                  /\ UNCHANGED <<retry_result, result>>
             ELSE /\ retry_result' = [kind |-> "raise", response |-> NetworkError]
                  /\ result' = WrappedError
                  /\ now' = now + d
                  /\ reqpc' = "done"
                  /\ UNCHANGED <<sleeps, attempt>>
    /\ http_attempts' = http_attempts + 1
    /\ UNCHANGED <<max_retries, retry_backoff_factor, acquire_calls, tokens,
                   last_refill>>
    /\ UNCHANGED notRetryVars

\* AsyncHTTPClient.__init__ with its RateLimiter
InitRetry ==
    /\ ParkedBaseLoop
    /\ max_retries \in 0..MaxRetries
    /\ retry_backoff_factor \in BackoffChoices
    /\ reqpc = "idle"
    /\ attempt = 0
    /\ last_exception = FALSE
    /\ http_attempts = 0
    /\ acquire_calls = 0
    /\ sleeps = <<>>
    /\ history = <<>>
    /\ retry_result = [kind |-> "none", response |-> NetworkError]
    /\ result = [kind |-> "none", error |-> "", status |-> NoneValue,
                 retry_after |-> NoneValue, slept |-> NoneValue,
                 wrapped |-> FALSE]
    /\ now = 0
    /\ burst = 1
    /\ ticks_per_token \in RateChoices
    /\ tokens = ticks_per_token
    /\ last_refill = 0
    /\ lock_holder = NoTask
    /\ lock_waiters = <<>>
    /\ rlpc = [t \in Tasks |-> "idle"]
    /\ wake_at = 0
    /\ entered = <<0, 0>>
    /\ acquired = <<>>
    /\ ParkedReactions
    /\ ParkedWebSocket
    /\ ParkedFeed

NextRetry ==
    \/ RequestStart
    \/ RetryAcquire
    \/ SendAnswered
    \/ SendFailed

SpecRetry == InitRetry /\ [][NextRetry]_vars

----------------------------------------------------------------------------
\* Connection manager: connect(), disconnect() and the connection loop, one
\* action per suspension point of the loop's task.  The model follows one
\* loop task at a time: wspc is "none" before any task exists, "done" when
\* the task has finished, else the await the task is suspended at.

DelayChoices == {5, 100}

\* The cap of the reconnect delay, in seconds.
ReconnectDelayCap == 300

\* Variant: the delay is not capped.
ReconnectDelayUncapped(n) == reconnect_delay * Pow2(n)

\* min(self.reconnect_delay * (2**self._reconnect_attempts), 300)
ReconnectDelay(n) == Min(reconnect_delay * Pow2(n), ReconnectDelayCap)

\* Variant: the loop gives up when the counter reaches the ceiling.
GiveUpAtCeiling(n) == n >= max_reconnect_attempts

\* "if self._reconnect_attempts > self.max_reconnect_attempts"
GiveUp(n) == n > max_reconnect_attempts

\* Inbound frames: the text of a frame, parsed by json.loads and
\* WebSocketMessage.from_dict, or text that is not JSON.
OkReply == [kind |-> "json", status |-> "OK", seq_reply |-> 1, event |-> ""]
ErrorReply == [kind |-> "json", status |-> "FAIL", seq_reply |-> 1, event |-> ""]
PostedEvent == [kind |-> "json", status |-> "", seq_reply |-> 0, event |-> "posted"]
Garbage == [kind |-> "text", status |-> "", seq_reply |-> 0, event |-> ""]
Frames == {OkReply, ErrorReply, PostedEvent, Garbage}
ReplyFrames == {OkReply, ErrorReply, PostedEvent}
NoFrame == [kind |-> "none", status |-> "", seq_reply |-> 0, event |-> ""]

EventTypes == {"posted", "typing"}

\* Handlers a caller registers: one that returns and one that raises.
Handlers == {"h_ok", "h_raise"}
Raises(h) == h = "h_raise"

\* response.get("status") == "OK" and response.get("seq_reply") == 1
IsAuthReply(f) == f.kind = "json" /\ f.status = "OK" /\ f.seq_reply = 1

\* Variant: the handlers after a raising one are not called.
RECURSIVE CallHandlersUntilRaise(_)
CallHandlersUntilRaise(hs) ==
    IF hs = <<>> THEN <<>>
    ELSE IF Raises(Head(hs)) THEN <<Head(hs)>>
    ELSE <<Head(hs)>> \o CallHandlersUntilRaise(Tail(hs))

\* "for handler in handlers: try: handler(event_dict) except Exception":
\* the handlers called, in order; a raise is logged and the loop goes on.
RECURSIVE CallHandlers(_)
CallHandlers(hs) ==
    IF hs = <<>> THEN <<>>
    ELSE <<Head(hs)>> \o CallHandlers(Tail(hs))

\* _message_loop's body for one frame: text that is not JSON is logged and
\* skipped; _handle_message calls the handlers of the frame's event type.
HandleMessage(f) ==
    IF f.kind # "json" THEN <<>>
    ELSE IF f.event \in EventTypes THEN CallHandlers(event_handlers[f.event])
    ELSE <<>>

\* Nothing handled yet on the current socket.
NoDispatch == [frame |-> NoFrame, registered |-> <<>>, calls |-> <<>>]

\* The number of handler registrations.
Registrations == Len(event_handlers["posted"]) + Len(event_handlers["typing"])

\* list.remove: the first occurrence is removed; ValueError is swallowed.
RECURSIVE RemoveFirst(_, _)
RemoveFirst(hs, h) ==
    IF hs = <<>> THEN <<>>
    ELSE IF Head(hs) = h THEN Tail(hs)
    ELSE <<Head(hs)>> \o RemoveFirst(Tail(hs), h)

\* The finally clause of the loop body, then the loop ends (break): flags
\* cleared, socket closed, task finished.
LoopEnds(reason, counter) ==
    /\ is_connected' = FALSE
    /\ is_authenticated' = FALSE
    /\ websocket' = "none"
    /\ wspc' = "done"
    /\ task_result' = "returned"
    /\ exit_reason' = reason
    /\ reconnect_attempts' = counter
    /\ UNCHANGED <<delays, attempts_made>>

\* "except Exception" of the loop: stop when auto-reconnect is off or the
\* ceiling is passed, else start the backoff sleep.  The finally clause runs
\* only after that sleep, so the flags and the socket stay as they are.
OnConnectionError ==
    IF ~auto_reconnect THEN LoopEnds("no_reconnect", reconnect_attempts)
    ELSE IF GiveUp(reconnect_attempts + 1)
         THEN LoopEnds("gave_up", reconnect_attempts + 1)
    ELSE /\ reconnect_attempts' = reconnect_attempts + 1
         /\ delays' = Append(delays, ReconnectDelay(reconnect_attempts + 1))
         /\ wspc' = "backoff"
         /\ UNCHANGED <<is_connected, is_authenticated, websocket, task_result,
                        exit_reason, attempts_made>>

\* The task is suspended somewhere in the loop and no cancellation is
\* pending: its next step is the one its await resumes with.
LoopAt(pc) == wspc = pc /\ ~cancel_requested

\* Groups of variables, for the UNCHANGED clauses.
wsConfig == <<reconnect_delay, max_reconnect_attempts>>
wsFlags == <<websocket, is_connected, is_authenticated>>
wsLoop == <<reconnect_attempts, wspc, task_result, exit_reason, attempts_made,
            all_failed, loop_start_attempts, delays>>
wsAuthGhosts == <<auth_outcome, ok_reply_arrived>>
wsDisconnectGhosts == <<connect_raced, quiesced, repeated>>

\* State no step of the loop task touches.
loopUnchanged == <<auto_reconnect, wsConfig, connection_task, cancel_requested,
                   dpc, event_handlers, loop_start_attempts,
                   wsDisconnectGhosts>>

\* on_event(event_type, handler): the handler is appended to the type's list.
OnEvent(t, h) ==
    /\ Registrations < MaxHandlers
    /\ event_handlers' = [event_handlers EXCEPT ![t] = Append(@, h)]
    /\ UNCHANGED <<auto_reconnect, wsConfig, wsFlags, wsLoop, connection_task,
                   cancel_requested, dpc, inbox, wsAuthGhosts, last_dispatch,
                   wsDisconnectGhosts>>
    /\ UNCHANGED notWsVars

\* remove_event_handler(event_type, handler)
RemoveEventHandler(t, h) ==
    /\ event_handlers[t] # <<>>
    /\ event_handlers' = [event_handlers EXCEPT ![t] = RemoveFirst(@, h)]
    /\ UNCHANGED <<auto_reconnect, wsConfig, wsFlags, wsLoop, connection_task,
                   cancel_requested, dpc, inbox, wsAuthGhosts, last_dispatch,
                   wsDisconnectGhosts>>
    /\ UNCHANGED notWsVars

\* The server sends a frame; the socket buffers it until the client reads.
ServerSends(f) ==
    /\ websocket = "open"
    /\ wspc \in {"auth_wait", "reading"}
    /\ Len(inbox) < MaxInbox
    /\ inbox' = Append(inbox, f)
    /\ ok_reply_arrived' = (ok_reply_arrived \/ (wspc = "auth_wait" /\ f = OkReply))
    /\ UNCHANGED <<auto_reconnect, wsConfig, wsFlags, wsLoop, connection_task,
                   cancel_requested, dpc, event_handlers, auth_outcome,
                   last_dispatch, wsDisconnectGhosts>>
    /\ UNCHANGED notWsVars

\* connect(): returns at once when the task it knows is still running, else
\* spawns the connection loop, which starts its first websockets.connect.
WsConnect ==
    /\ IF connection_task = "set" /\ wspc \notin {"none", "done"}
       THEN UNCHANGED <<connection_task, wsLoop, wsAuthGhosts,
                        wsDisconnectGhosts>>
       ELSE /\ wspc \in {"none", "done"}
            /\ reconnect_attempts <= max_reconnect_attempts + MaxRestarts
            /\ connection_task' = "set"
            /\ wspc' = "connecting"
            /\ task_result' = "running"
            /\ exit_reason' = "none"
            /\ attempts_made' = 1
            /\ all_failed' = TRUE
            /\ loop_start_attempts' = reconnect_attempts
            /\ auth_outcome' = "none"
            /\ ok_reply_arrived' = FALSE
            /\ connect_raced' = (connect_raced \/ dpc # "idle")
            /\ quiesced' = FALSE
            /\ repeated' = FALSE
            /\ UNCHANGED <<reconnect_attempts, delays>>
    /\ UNCHANGED <<auto_reconnect, wsConfig, wsFlags, cancel_requested, dpc,
                   event_handlers, inbox, last_dispatch>>
    /\ UNCHANGED notWsVars

\* The socket's buffer and the record of the last frame go with the socket;
\* frames left unread when the handshake or the message loop fails are
\* never read.
SocketGhosts(rest) ==
    /\ inbox' = IF websocket' = "open" /\ wspc' \in {"auth_wait", "reading"}
                THEN rest ELSE <<>>
    /\ last_dispatch' = IF websocket' = "open" /\ wspc' = "reading"
                        THEN last_dispatch ELSE NoDispatch

\* websockets.connect raises.
WsConnectFails ==
    /\ LoopAt("connecting")
    /\ OnConnectionError
    /\ SocketGhosts(inbox)
    /\ UNCHANGED <<all_failed, wsAuthGhosts>>
    /\ UNCHANGED loopUnchanged
    /\ UNCHANGED notWsVars

\* websockets.connect returns: the socket is kept, the auth frame is sent and
\* its reply awaited.
WsConnectOpens ==
    /\ LoopAt("connecting")
    /\ websocket' = "open"
    /\ is_connected' = TRUE
    /\ wspc' = "auth_wait"
    /\ inbox' = <<>>
    /\ last_dispatch' = NoDispatch
    /\ auth_outcome' = "none"
    /\ ok_reply_arrived' = FALSE
    /\ UNCHANGED <<is_authenticated, reconnect_attempts, task_result,
                   exit_reason, attempts_made, all_failed, delays>>
    /\ UNCHANGED loopUnchanged
    /\ UNCHANGED notWsVars
\* The counter is left where the failures put it.
AttemptsKept(n) == n

\* "self._reconnect_attempts = 0" once _connect_websocket has returned.
AttemptsAfterAuth(n) == 0

\* The first frame read after the auth frame is {status: "OK", seq_reply: 1}:
\* authenticated, the counter is reset and the message loop starts.
WsAuthOk ==
    /\ LoopAt("auth_wait")
    /\ websocket = "open"
    /\ inbox # <<>>
    /\ IsAuthReply(Head(inbox))
    /\ inbox' = Tail(inbox)
    /\ is_authenticated' = TRUE
    /\ reconnect_attempts' = AttemptsAfterAuth(reconnect_attempts)
    /\ wspc' = "reading"
    /\ all_failed' = FALSE
    /\ delays' = <<>>
    /\ auth_outcome' = "ok"
    /\ UNCHANGED <<websocket, is_connected, task_result, exit_reason,
                   attempts_made, ok_reply_arrived, last_dispatch>>
    /\ UNCHANGED loopUnchanged
    /\ UNCHANGED notWsVars

\* The first frame read after the auth frame is anything else (an error
\* reply, an event, text that is not JSON): _connect_websocket raises.
WsAuthRejected ==
    /\ LoopAt("auth_wait")
    /\ websocket = "open"
    /\ inbox # <<>>
    /\ ~IsAuthReply(Head(inbox))
    /\ OnConnectionError
    /\ SocketGhosts(Tail(inbox))
    /\ auth_outcome' = "failed"
    /\ UNCHANGED <<all_failed, ok_reply_arrived>>
    /\ UNCHANGED loopUnchanged
    /\ UNCHANGED notWsVars

\* No frame arrives within the 10 s wait, or the send or the socket fails:
\* _connect_websocket raises.
WsAuthFails ==
    /\ LoopAt("auth_wait")
    /\ inbox = <<>>
    /\ OnConnectionError
    /\ SocketGhosts(inbox)
    /\ auth_outcome' = "failed"
    /\ UNCHANGED <<all_failed, ok_reply_arrived>>
    /\ UNCHANGED loopUnchanged
    /\ UNCHANGED notWsVars

\* The message loop reads the next frame and handles it.
WsFrameStep ==
    /\ LoopAt("reading")
    /\ websocket = "open"
    /\ inbox # <<>>
    /\ inbox' = Tail(inbox)
    /\ last_dispatch' =
          [frame |-> Head(inbox),
           registered |-> IF Head(inbox).event \in EventTypes
                          THEN event_handlers[Head(inbox).event] ELSE <<>>,
           calls |-> HandleMessage(Head(inbox))]
    /\ UNCHANGED <<wsFlags, reconnect_attempts, wspc, task_result, exit_reason,
                   attempts_made, all_failed, delays, wsAuthGhosts>>
    /\ UNCHANGED loopUnchanged

WsFrame ==
    /\ WsFrameStep
    /\ UNCHANGED notWsVars

\* The message loop raises (the connection broke).
WsReadError ==
    /\ LoopAt("reading")
    /\ OnConnectionError
    /\ SocketGhosts(inbox)
    /\ UNCHANGED <<all_failed, wsAuthGhosts>>
    /\ UNCHANGED loopUnchanged
    /\ UNCHANGED notWsVars

\* The finally clause of the loop body, then the next turn of "while True":
\* flags cleared, socket closed, websockets.connect called again.
NextAttempt ==
    /\ is_connected' = FALSE
    /\ is_authenticated' = FALSE
    /\ websocket' = "none"
    /\ inbox' = <<>>
    /\ last_dispatch' = NoDispatch
    /\ wspc' = "connecting"
    /\ attempts_made' = IF all_failed THEN attempts_made + 1 ELSE attempts_made
    /\ UNCHANGED <<reconnect_attempts, task_result, exit_reason, all_failed,
                   delays, wsAuthGhosts>>

\* The connection is closed normally: the message loop returns, the finally
\* clause runs and the while loop connects again.
WsClosedNormally ==
    /\ LoopAt("reading")
    /\ NextAttempt
    /\ UNCHANGED loopUnchanged
    /\ UNCHANGED notWsVars

\* The backoff sleep is over: the finally clause runs and the while loop
\* makes the next connection attempt.
WsBackoffEnds ==
    /\ LoopAt("backoff")
    /\ NextAttempt
    /\ UNCHANGED loopUnchanged
    /\ UNCHANGED notWsVars

\* The cancelled task's next step raises CancelledError at its await: caught
\* by the loop (break) or, during the backoff sleep, passing through the
\* except clause; the finally clause runs either way and the task is done.
WsCancelled ==
    /\ cancel_requested
    /\ wspc \notin {"none", "done"}
    /\ cancel_requested' = FALSE
    /\ is_connected' = FALSE
    /\ is_authenticated' = FALSE
    /\ websocket' = "none"
    /\ inbox' = <<>>
    /\ last_dispatch' = NoDispatch
    /\ wspc' = "done"
    /\ task_result' = IF wspc = "backoff" THEN "cancelled" ELSE "returned"
    /\ exit_reason' = "cancelled"
    /\ dpc' = IF dpc = "await_task" THEN "wakeup" ELSE dpc
    /\ UNCHANGED <<auto_reconnect, wsConfig, reconnect_attempts,
                   connection_task, event_handlers, attempts_made, all_failed,
                   loop_start_attempts, delays, wsAuthGhosts,
                   wsDisconnectGhosts>>
    /\ UNCHANGED notWsVars

\* Variant: disconnect() leaves auto_reconnect as it was.
AutoReconnectKept == auto_reconnect

\* "self.auto_reconnect = False  # Prevent reconnection"
AutoReconnectAfterDisconnect == FALSE

\* The end of disconnect(): the socket, if any, is closed and forgotten, the
\* flags are cleared and the call returns.
DisconnectReturns ==
    /\ websocket' = "none"
    /\ inbox' = <<>>
    /\ last_dispatch' = NoDispatch
    /\ is_connected' = FALSE
    /\ is_authenticated' = FALSE
    /\ dpc' = "idle"
    /\ quiesced' = TRUE

\* disconnect() is called: auto-reconnect off; a known task is cancelled and
\* awaited (a finished one is awaited without suspending) and forgotten.
WsDisconnectStep ==
    /\ dpc = "idle"
    /\ auto_reconnect' = AutoReconnectAfterDisconnect
    /\ repeated' = quiesced
    /\ IF connection_task = "set" /\ wspc \notin {"none", "done"}
       THEN /\ cancel_requested' = TRUE
            /\ dpc' = "await_task"
            /\ quiesced' = FALSE
            /\ UNCHANGED <<connection_task, wsFlags, inbox, last_dispatch>>
       ELSE /\ connection_task' = "none"
            /\ DisconnectReturns
            /\ UNCHANGED cancel_requested
    /\ UNCHANGED <<wsConfig, wsLoop, event_handlers, wsAuthGhosts,
                   connect_raced>>

WsDisconnect ==
    /\ WsDisconnectStep
    /\ UNCHANGED notWsVars

\* The awaited task is done: disconnect() resumes after "await
\* self._connection_task", forgets the task it finds in _connection_task
\* and returns.
WsDisconnectResumesStep ==
    /\ dpc = "wakeup"
    /\ connection_task' = "none"
    /\ DisconnectReturns
    /\ UNCHANGED <<auto_reconnect, wsConfig, wsLoop, cancel_requested,
                   event_handlers, wsAuthGhosts, connect_raced, repeated>>

WsDisconnectResumes ==
    /\ WsDisconnectResumesStep
    /\ UNCHANGED notWsVars

\* MattermostWebSocketClient.__init__
InitWebSocket ==
    /\ ParkedBaseLoop
    /\ auto_reconnect \in BOOLEAN
    /\ reconnect_delay \in DelayChoices
    /\ max_reconnect_attempts \in 0..MaxReconnect
    /\ websocket = "none"
    /\ is_connected = FALSE
    /\ is_authenticated = FALSE
    /\ reconnect_attempts = 0
    /\ connection_task = "none"
    /\ wspc = "none"
    /\ cancel_requested = FALSE
    /\ dpc = "idle"
    /\ event_handlers = [t \in EventTypes |-> <<>>]
    /\ inbox = <<>>
    /\ task_result = "none"
    /\ exit_reason = "none"
    /\ attempts_made = 0
    /\ all_failed = TRUE
    /\ loop_start_attempts = 0
    /\ delays = <<>>
    /\ auth_outcome = "none"
    /\ ok_reply_arrived = FALSE
    /\ last_dispatch = NoDispatch
    /\ connect_raced = FALSE
    /\ quiesced = FALSE
    /\ repeated = FALSE
    /\ ParkedReactions
    /\ ParkedRateLimiter
    /\ ParkedRetry
    /\ ParkedFeed

NextWebSocket ==
    \/ OnEvent("posted", "h_ok")
    \/ \E f \in ReplyFrames : ServerSends(f)
    \/ WsConnect
    \/ WsConnectFails
    \/ WsConnectOpens
    \/ WsAuthOk
    \/ WsAuthRejected
    \/ WsAuthFails
    \/ WsFrame
    \/ WsReadError
    \/ WsClosedNormally
    \/ WsBackoffEnds
    \/ WsCancelled
    \/ WsDisconnect
    \/ WsDisconnectResumes

SpecWebSocket == InitWebSocket /\ [][NextWebSocket]_vars

\* The same client with the default configuration, any handlers and any
\* frames, never disconnected by its owner.
InitDispatch ==
    /\ ParkedBaseLoop
    /\ auto_reconnect = TRUE
    /\ reconnect_delay = 5
    /\ max_reconnect_attempts = 0
    /\ websocket = "none"
    /\ is_connected = FALSE
    /\ is_authenticated = FALSE
    /\ reconnect_attempts = 0
    /\ connection_task = "none"
    /\ wspc = "none"
    /\ cancel_requested = FALSE
    /\ dpc = "idle"
    /\ event_handlers = [t \in EventTypes |-> <<>>]
    /\ inbox = <<>>
    /\ task_result = "none"
    /\ exit_reason = "none"
    /\ attempts_made = 0
    /\ all_failed = TRUE
    /\ loop_start_attempts = 0
    /\ delays = <<>>
    /\ auth_outcome = "none"
    /\ ok_reply_arrived = FALSE
    /\ last_dispatch = NoDispatch
    /\ connect_raced = FALSE
    /\ quiesced = FALSE
    /\ repeated = FALSE
    /\ ParkedReactions
    /\ ParkedRateLimiter
    /\ ParkedRetry
    /\ ParkedFeed

NextDispatch ==
    \/ \E t \in EventTypes, h \in Handlers : OnEvent(t, h)
    \/ \E t \in EventTypes, h \in Handlers : RemoveEventHandler(t, h)
    \/ \E f \in Frames : ServerSends(f)
    \/ WsConnect
    \/ WsConnectFails
    \/ WsConnectOpens
    \/ WsAuthOk
    \/ WsAuthRejected
    \/ WsAuthFails
    \/ WsFrame
    \/ WsReadError
    \/ WsClosedNormally

SpecDispatch == InitDispatch /\ [][NextDispatch]_vars

----------------------------------------------------------------------------
\* Update fan-out: emit_update over callbacks that return, raise, and change
\* the subscriber set while they are being called

\* The callbacks of the fan-out model: cb_ok returns, cb_raise raises an
\* Exception, cb_leave unsubscribes itself and cb_ok, cb_join subscribes
\* cb_late, cb_late returns.
EmitCallbacks == {"cb_ok", "cb_raise", "cb_leave", "cb_join", "cb_late"}
Updates == {"u1", "u2"}

CallbackRaises(cb) == cb = "cb_raise"

\* What the call of cb does to the live subscriber set.
CallbackEffect(cb, subs) ==
    IF cb = "cb_leave" THEN subs \ {"cb_leave", "cb_ok"}
    ELSE IF cb = "cb_join" THEN subs \cup {"cb_late"}
    ELSE subs

\* Variant: the call is not wrapped in try/except, the first exception ends
\* the loop and reaches the caller.
RECURSIVE InvokeCallbacksUnguarded(_, _, _, _)
InvokeCallbacksUnguarded(order, i, u, st) ==
    IF i > Len(order) THEN st
    ELSE LET cb == order[i]
             st1 == [subs |-> CallbackEffect(cb, st.subs),
                     calls |-> Append(st.calls, [cb |-> cb, update |-> u]),
                     error |-> CallbackRaises(cb)]
         IN  IF CallbackRaises(cb) THEN st1
             ELSE InvokeCallbacksUnguarded(order, i + 1, u, st1)

\* "for callback in self._subscribers.copy(): try: callback(update) except
\* Exception: log" over the snapshot in iteration order, from position i on.
RECURSIVE InvokeCallbacks(_, _, _, _)
InvokeCallbacks(order, i, u, st) ==
    IF i > Len(order) THEN st
    ELSE LET cb == order[i]
             st1 == [subs |-> CallbackEffect(cb, st.subs),
                     calls |-> Append(st.calls, [cb |-> cb, update |-> u]),
                     error |-> st.error]
         IN  InvokeCallbacks(order, i + 1, u, st1)

\* emit_update(u): returns at once without subscribers, else calls the
\* callbacks of a copy of the set.  The coroutine has no await, so only the
\* callbacks themselves can change the set during the delivery.
EmitUpdateCall(u) ==
    /\ UNCHANGED notFeedVars
    /\ UNCHANGED <<delivered, readVars, postPollVars, streamVars>>
    /\ snapshot' = subscribers
    /\ emit_arg' = u
    /\ \E order \in Orders(subscribers) :
          LET st == InvokeCallbacks(order, 1, u,
                        [subs |-> subscribers, calls |-> <<>>, error |-> FALSE])
          IN  /\ subscribers' = st.subs
              /\ subscribers_after' = st.subs
              /\ invoked' = st.calls
              /\ emit_error' = st.error

InitEmit ==
    /\ ParkedBaseLoop
    /\ subscribers \in SUBSET EmitCallbacks
    /\ snapshot = {}
    /\ invoked = <<>>
    /\ emit_arg = "none"
    /\ emit_error = FALSE
    /\ subscribers_after = {}
    /\ delivered = <<>>
    /\ ParkedRead
    /\ ParkedPostPoll
    /\ ParkedStreaming
    /\ ParkedReactionCache
    /\ ParkedRateLimiter
    /\ ParkedRetry
    /\ ParkedWebSocket

NextEmit == \E u \in Updates : EmitUpdateCall(u)

SpecEmit == InitEmit /\ [][NextEmit]_vars

----------------------------------------------------------------------------
\* Dedup keys: the event_id of the updates the push handlers and the poll
\* cycles build

PostWord == <<"p", "o", "s", "t">>
ReactionWord == <<"r", "e", "a", "c", "t", "i", "o", "n">>
RemovedWord == <<"r", "e", "m", "o", "v", "e", "d">>
Underscore == <<"_">>

\* Emoji names of the dedup model: a plain one, one with an underscore and
\* one with a colon in it.
DedupEmojis == {<<"o", "k">>, <<"a", "_", "b">>, <<"a", ":", "b">>}

\* The "data" of a reaction event, and the reactions a poll cycle lists.
ReactionEvents ==
    [post_id : PostIds, user_id : UserIds, emoji_name : DedupEmojis]

\* A post as the "posted" event and GET /channels/{id}/posts carry it: the
\* two may differ in everything but the id (an edit between push and poll).
PostRecords == [id : PostIds, user_id : UserIds, edited : BOOLEAN]

\* f"post_{post.id}" in _handle_new_post_event
PushPostEventId(post) == PostWord \o Underscore \o post.id

\* f"post_{post.id}" in _poll_channel_posts
PollPostEventId(post) == PostWord \o Underscore \o post.id

\* f"reaction_{post_id}_{user_id}_{emoji_name}" in
\* _handle_reaction_added_event, from the event's data
PushAddedEventId(d) ==
    ReactionWord \o Underscore \o d.post_id \o Underscore \o d.user_id
        \o Underscore \o d.emoji_name

\* f"reaction_removed_{post_id}_{user_id}_{emoji_name}" in
\* _handle_reaction_removed_event
PushRemovedEventId(d) ==
    ReactionWord \o Underscore \o RemovedWord \o Underscore \o d.post_id
        \o Underscore \o d.user_id \o Underscore \o d.emoji_name

\* f"reaction_{post_id}_{user_id}_{emoji_name}" in _poll_channel_reactions,
\* from the polled post and the listed reaction
PollAddedEventId(pid, u, e) ==
    ReactionWord \o Underscore \o pid \o Underscore \o u \o Underscore \o e

\* Variant: the removal's event_id is built with the added format.
PollRemovedEventIdAsAdded(key) ==
    LET parts == SplitKey(key)
    IN  PollAddedEventId(parts[1], parts[2], parts[3])

\* f"reaction_removed_{post_id}_{user_id}_{emoji_name}" in _poll_for_updates,
\* from the parts of the cached key
PollRemovedEventId(key) ==
    LET parts == SplitKey(key)
    IN  ReactionWord \o Underscore \o RemovedWord \o Underscore \o parts[1]
            \o Underscore \o parts[2] \o Underscore \o parts[3]

\* One update of the log: where it came from, its kind, the logical event
\* it reports and its dedup key.
DedupEntry(origin, kind, key, eid) ==
    [origin |-> origin, update_type |-> kind, key |-> key, event_id |-> eid]

Deliver(entry) ==
    /\ Len(delivered) < MaxDelivered
    /\ delivered' = Append(delivered, entry)
    /\ UNCHANGED <<reactVars, rlVars, retryVars, wsVars, emitGhosts, readVars,
                   postPollVars, streamVars, baseLoopVars>>

\* _handle_new_post_event builds the update of a "posted" event.
PushPost(post) ==
    Deliver(DedupEntry("push", "created", <<post.id>>, PushPostEventId(post)))

\* _poll_channel_posts builds the update of a new post.
PollPost(post) ==
    Deliver(DedupEntry("poll", "created", <<post.id>>, PollPostEventId(post)))

\* _handle_reaction_added_event
PushReactionAdded(d) ==
    Deliver(DedupEntry("push", "reaction_added",
                       <<d.post_id, d.user_id, d.emoji_name>>,
                       PushAddedEventId(d)))

\* _handle_reaction_removed_event
PushReactionRemoved(d) ==
    Deliver(DedupEntry("push", "reaction_removed",
                       <<d.post_id, d.user_id, d.emoji_name>>,
                       PushRemovedEventId(d)))

\* _poll_channel_reactions finds a reaction that is not in the cache.
PollReactionAdded(d) ==
    Deliver(DedupEntry("poll", "reaction_added",
                       <<d.post_id, d.user_id, d.emoji_name>>,
                       PollAddedEventId(d.post_id, d.user_id, d.emoji_name)))

\* _poll_for_updates finds a cached key that was not read again; the key is
\* the one _poll_channel_reactions stored.
PollReactionRemoved(d) ==
    Deliver(DedupEntry("poll", "reaction_removed",
                       <<d.post_id, d.user_id, d.emoji_name>>,
                       PollRemovedEventId(
                           ReactionKey(d.post_id, d.user_id, d.emoji_name))))

InitDedup ==
    /\ ParkedBaseLoop
    /\ ParkedFeed
    /\ ParkedReactions
    /\ ParkedRateLimiter
    /\ ParkedRetry
    /\ ParkedWebSocket

NextDedup ==
    \/ \E post \in PostRecords : PushPost(post)
    \/ \E post \in PostRecords : PollPost(post)
    \/ \E d \in ReactionEvents : PushReactionAdded(d)
    \/ \E d \in ReactionEvents : PushReactionRemoved(d)
    \/ \E d \in ReactionEvents : PollReactionAdded(d)
    \/ \E d \in ReactionEvents : PollReactionRemoved(d)

SpecDedup == InitDedup /\ [][NextDedup]_vars

----------------------------------------------------------------------------
\* Post feed snapshot: read()

\* "posts": recent_posts[:50]
ReadLimit == 50
\* params={"per_page": 10}
ReadPerPage == 10

\* create_at of a Post after validation: validate_timestamp turns a missing
\* value and 0 into None, which the model writes as 0.
NoCreateAt == 0

\* The page GET /channels/{c}/posts answers with, in the order of its
\* "posts" object: records of post id and create_at.  Channels are numbers:
\* channel 1 holds posts created at 100 and 300, channel 2 one created at
\* 200, channel 8 a post the server lists with create_at 0, the others a full
\* page each.
ServerPosts(c) ==
    IF c = 1 THEN <<[id |-> <<1, 1>>, create_at |-> 100],
                    [id |-> <<1, 2>>, create_at |-> 300]>>
    ELSE IF c = 2 THEN <<[id |-> <<2, 1>>, create_at |-> 200]>>
    ELSE IF c = 8 THEN <<[id |-> <<8, 1>>, create_at |-> NoCreateAt]>>
    ELSE [k \in 1..ReadPerPage |->
             [id |-> <<c, k>>, create_at |-> 1000 + 10 * k + c]]

\* The ways channel_ids is listed in the runs of the model; <<>> is "no
\* channel_ids given".
ReadScopes ==
    {<<>>, <<1, 2>>, <<2, 1>>, <<2>>, <<8>>, <<1, 8>>,
     <<1, 2, 3, 4, 5, 6, 7>>, <<7, 6, 5, 4, 3, 2, 1>>}

\* GET /teams/{team_id}/channels
TeamChannels == <<1, 2>>

\* list.sort compares the keys: with two or more elements a None key raises
\* TypeError.
SortRaises(list) ==
    /\ Len(list) >= 2
    /\ \E i \in DOMAIN list : list[i].create_at = NoCreateAt

\* recent_posts.sort(key=lambda p: p.get("create_at", 0), reverse=True): the
\* element at position i lands behind every element with a greater key and
\* behind its equals that stood before it (the sort is stable, also with
\* reverse=True).
SortRecentPosts(list) ==
    LET Rank(i) ==
            1 + Cardinality({j \in DOMAIN list :
                                \/ list[j].create_at > list[i].create_at
                                \/ /\ list[j].create_at = list[i].create_at
                                   /\ j < i})
    IN  [r \in DOMAIN list |-> list[CHOOSE i \in DOMAIN list : Rank(i) = r]]

\* recent_posts[:50]
Truncate(list) ==
    SubSeq(list, 1, IF Len(list) < ReadLimit THEN Len(list) ELSE ReadLimit)

\* A call of read() that has not returned yet has no result.
NotReturned == [kind |-> "none", posts |-> <<>>]

\* The end of read(): sort, truncate, return; an exception of the sort is
\* caught by the outer handler, which returns the error form.
ReadReturn(posts) ==
    /\ readpc' = "done"
    /\ read_result' = IF SortRaises(posts)
                      THEN [kind |-> "error", posts |-> <<>>]
                      ELSE [kind |-> "posts",
                            posts |-> Truncate(SortRecentPosts(posts))]
    /\ recent_posts' = posts

\* Head of "for channel_id in channels_to_read": the next fetch is awaited,
\* or the loop is over.
ReadNextChannel(chs, posts) ==
    IF chs = <<>>
    THEN /\ ReadReturn(posts)
         /\ channels_to_read' = chs
    ELSE /\ readpc' = "fetch_posts"
         /\ channels_to_read' = chs
         /\ recent_posts' = posts
         /\ read_result' = NotReturned

\* read() up to its first await.
ReadCall ==
    /\ UNCHANGED notReadVars
    /\ readpc \in {"idle", "done"}
    /\ fetched_ok' = {}
    /\ fetch_failed' = {}
    /\ IF channel_ids # <<>>
       THEN ReadNextChannel(channel_ids, <<>>)
       ELSE IF team_id
       THEN /\ readpc' = "fetch_channels"
            /\ channels_to_read' = <<>>
            /\ recent_posts' = <<>>
            /\ read_result' = NotReturned
       ELSE ReadNextChannel(<<>>, <<>>)
    /\ UNCHANGED <<channel_ids, team_id>>

\* GET /teams/{team_id}/channels answers.
ReadChannelsOk ==
    /\ UNCHANGED notReadVars
    /\ readpc = "fetch_channels"
    /\ ReadNextChannel(TeamChannels, <<>>)
    /\ UNCHANGED <<channel_ids, team_id, fetched_ok, fetch_failed>>

\* GET /teams/{team_id}/channels raises: the outer handler returns the error
\* form.
ReadChannelsFail ==
    /\ UNCHANGED notReadVars
    /\ readpc = "fetch_channels"
    /\ readpc' = "done"
    /\ read_result' = [kind |-> "error", posts |-> <<>>]
    /\ UNCHANGED <<channel_ids, team_id, channels_to_read, recent_posts,
                   fetched_ok, fetch_failed>>

\* GET /channels/{channel_id}/posts answers: the page is appended.
ReadPostsOk ==
    /\ UNCHANGED notReadVars
    /\ readpc = "fetch_posts"
    /\ fetched_ok' = fetched_ok \cup {Head(channels_to_read)}
    /\ ReadNextChannel(Tail(channels_to_read),
                       recent_posts \o ServerPosts(Head(channels_to_read)))
    /\ UNCHANGED <<channel_ids, team_id, fetch_failed>>

\* GET /channels/{channel_id}/posts raises: logged, the channel is skipped.
ReadPostsFail ==
    /\ UNCHANGED notReadVars
    /\ readpc = "fetch_posts"
    /\ fetch_failed' = fetch_failed \cup {Head(channels_to_read)}
    /\ ReadNextChannel(Tail(channels_to_read), recent_posts)
    /\ UNCHANGED <<channel_ids, team_id, fetched_ok>>

InitRead ==
    /\ ParkedBaseLoop
    /\ channel_ids \in ReadScopes
    /\ team_id \in BOOLEAN
    /\ readpc = "idle"
    /\ channels_to_read = <<>>
    /\ recent_posts = <<>>
    /\ read_result = NotReturned
    /\ fetched_ok = {}
    /\ fetch_failed = {}
    /\ snapshot = {}
    /\ invoked = <<>>
    /\ emit_arg = "none"
    /\ emit_error = FALSE
    /\ subscribers_after = {}
    /\ delivered = <<>>
    /\ ParkedPostPoll
    /\ ParkedStreaming
    /\ ParkedReactions
    /\ ParkedRateLimiter
    /\ ParkedRetry
    /\ ParkedWebSocket

NextRead ==
    \/ ReadCall
    \/ ReadChannelsOk
    \/ ReadChannelsFail
    \/ ReadPostsOk
    \/ ReadPostsFail

SpecRead == InitRead /\ [][NextRead]_vars

----------------------------------------------------------------------------
\* Post feed: the poll cycle, one action per suspension point.  The loop
\* around it is the base class's: StartPolling, StopPolling, PollCancelled,
\* StopPollingResumes and PollSkip act on the same fields.

\* A post as Post(**post_data) holds it.
PostOf(c, t) == [id |-> <<c, t>>, create_at |-> t]

\* The "for post_data in posts_data['posts'].values()" loop over the page in
\* its listed order, from position i on: <<new_posts, latest_timestamp>>.
RECURSIVE ScanPosts(_, _, _, _, _)
ScanPosts(order, i, since, new_posts, latest) ==
    IF i > Len(order) THEN <<new_posts, latest>>
    ELSE LET post == order[i]
         IN  IF post.create_at # NoCreateAt /\ post.create_at > since
             THEN ScanPosts(order, i + 1, since, Append(new_posts, post),
                            IF post.create_at > latest
                            THEN post.create_at ELSE latest)
             ELSE ScanPosts(order, i + 1, since, new_posts, latest)

\* Variant: the timestamp of the last post listed is stored.
TimesLastListed(c, order) ==
    IF order = <<>> THEN last_post_times
    ELSE [last_post_times EXCEPT ![c] = order[Len(order)].create_at]

\* Variant: the stored timestamps are never raised.
TimesKept(c, order) == last_post_times

\* self._last_post_times after the page of channel c was scanned: "if
\* latest_timestamp > since_timestamp" the channel's entry is replaced.
TimesAfterPoll(c, order) ==
    LET since == last_post_times[c]
        latest == ScanPosts(order, 1, since, <<>>, since)[2]
    IN  IF latest > since
        THEN [last_post_times EXCEPT ![c] = latest]
        ELSE last_post_times

\* One element put into a list that is sorted ascending, behind its equals.
InsertAscending(sorted, post) ==
    LET n == Cardinality({i \in DOMAIN sorted :
                             sorted[i].create_at <= post.create_at})
    IN  SubSeq(sorted, 1, n) \o <<post>> \o SubSeq(sorted, n + 1, Len(sorted))

\* Variant: the new posts stay in the order the page listed them.
KeepListedOrder(list, i, acc) == list

\* new_posts.sort(key=lambda p: p.create_at or 0)
RECURSIVE SortNewPosts(_, _, _)
SortNewPosts(list, i, acc) ==
    IF i > Len(list) THEN acc
    ELSE SortNewPosts(list, i + 1, InsertAscending(acc, list[i]))

CreatedUpdate(c, post) ==
    [update_type |-> "created", post_id |-> post.id, channel_id |-> c,
     event_id |-> PollPostEventId(post), to |-> {}]

\* "for post in new_posts: await self.emit_update(update)", from i on.
RECURSIVE EmitCreated(_, _, _, _)
EmitCreated(c, posts, i, log) ==
    IF i > Len(posts) THEN log
    ELSE EmitCreated(c, posts, i + 1,
                     EmitUpdate(log, CreatedUpdate(c, posts[i])))

\* Variant: the failure of one channel's poll leaves the channel loop.
AbortCycleAfterFailure(rest) == <<>>

\* The channels still to poll after the poll of one channel failed: the
\* exception is caught inside _poll_channel_posts, the loop goes on.
AfterChannelFailure(rest) == rest

\* The reaction feed's fields and the loop control, which the post feed's
\* cycle does not touch.
postPollFrame == <<remote, subscribers, known_reactions, current_reactions,
                   channels_to_poll, posts_to_poll, channel_id, post_id, mode,
                   cycleRead, lastRead, prevRead, pollCtl>>

postScope == <<channel_ids, team_id, failing_channel>>

notPostPollVars == <<rlVars, retryVars, wsVars, emitGhosts, delivered, readpc,
                     channels_to_read, recent_posts, read_result, fetched_ok,
                     fetch_failed, streamVars, baseLoopVars>>

\* Head of "for channel_id in channels_to_poll": the next channel's fetch is
\* awaited, or _poll_for_updates returns and the base loop records the poll
\* time and sleeps.
PostNextChannel(chs) ==
    /\ post_channels' = chs
    /\ IF chs = <<>>
       THEN /\ pollpc' = "sleep"
            /\ last_poll_time' = TRUE
       ELSE /\ pollpc' = "fetch_posts"
            /\ UNCHANGED last_poll_time

\* The interval sleep ends with subscribers: _poll_for_updates starts.
PostPollWake ==
    /\ UNCHANGED notPostPollVars
    /\ pollpc = "sleep"
    /\ ~poll_cancel
    /\ ShouldPoll(subscribers)
    /\ cycle < MaxCycles
    /\ cycle' = cycle + 1
    /\ emitted' = <<>>
    /\ answered' = [c \in PollChannels |-> NoAnswer]
    /\ polled' = {}
    /\ times_before' = last_post_times
    /\ UNCHANGED created_log
    /\ IF channel_ids # <<>>
       THEN PostNextChannel(channel_ids)
       ELSE IF team_id
       THEN /\ pollpc' = "fetch_channels"
            /\ post_channels' = <<>>
            /\ UNCHANGED last_poll_time
       ELSE PostNextChannel(<<>>)
    /\ UNCHANGED <<postPollFrame, postScope, last_post_times, server_posts,
                   server_clock>>

\* GET /teams/{team_id}/channels answers.
PostChannelsOk ==
    /\ UNCHANGED notPostPollVars
    /\ pollpc = "fetch_channels"
    /\ ~poll_cancel
    /\ PostNextChannel(TeamChannels)
    /\ UNCHANGED <<postPollFrame, postScope, last_post_times, server_posts,
                   server_clock, cycle, emitted, answered, polled, times_before,
                   created_log>>

\* GET /teams/{team_id}/channels raises: the outer handler logs it and the
\* cycle is over.
PostChannelsFail ==
    /\ UNCHANGED notPostPollVars
    /\ pollpc = "fetch_channels"
    /\ ~poll_cancel
    /\ PostNextChannel(<<>>)
    /\ UNCHANGED <<postPollFrame, postScope, last_post_times, server_posts,
                   server_clock, cycle, emitted, answered, polled, times_before,
                   created_log>>

\* GET /channels/{channel_id}/posts answers: the new posts are collected, the
\* channel's timestamp is raised, the updates are emitted oldest first.
PostFetchOk ==
    /\ UNCHANGED notPostPollVars
    /\ pollpc = "fetch_posts"
    /\ ~poll_cancel
    /\ Head(post_channels) # failing_channel
    /\ LET c == Head(post_channels)
           since == last_post_times[c]
           page == {PostOf(c, t) : t \in server_posts[c]}
       IN  /\ \E order \in Orders(page) :
                LET res == ScanPosts(order, 1, since, <<>>, since)
                    new_posts == SortNewPosts(res[1], 1, <<>>)
                IN  /\ last_post_times' = TimesAfterPoll(c, order)
                    /\ emitted' = EmitCreated(c, new_posts, 1, emitted)
                    /\ created_log' =
                          created_log \o [i \in DOMAIN new_posts |-> new_posts[i].id]
           /\ answered' = [answered EXCEPT ![c] = server_posts[c]]
           /\ polled' = polled \cup {c}
    /\ PostNextChannel(Tail(post_channels))
    /\ UNCHANGED <<postPollFrame, postScope, server_posts, server_clock, cycle,
                   times_before>>

\* GET /channels/{channel_id}/posts raises: _poll_channel_posts logs it and
\* returns.
PostFetchFail ==
    /\ UNCHANGED notPostPollVars
    /\ pollpc = "fetch_posts"
    /\ ~poll_cancel
    /\ polled' = polled \cup {Head(post_channels)}
    /\ PostNextChannel(AfterChannelFailure(Tail(post_channels)))
    /\ UNCHANGED <<postPollFrame, postScope, last_post_times, server_posts,
                   server_clock, cycle, emitted, answered, times_before,
                   created_log>>

\* A user posts in a channel: the server stamps the post with its clock.
RemotePosted(c) ==
    /\ UNCHANGED notPostPollVars
    /\ server_clock < MaxPosts
    /\ server_clock' = server_clock + 1
    /\ server_posts' = [server_posts EXCEPT ![c] = @ \cup {server_clock + 1}]
    /\ UNCHANGED <<reactVars, postScope, last_post_times, post_channels,
                   answered, polled, times_before, created_log>>

InitPostPoll ==
    /\ ParkedBaseLoop
    /\ channel_ids \in {<<>>, <<1, 2>>, <<2, 1>>}
    /\ team_id = TRUE
    /\ failing_channel \in PollChannels
    /\ last_post_times = [c \in PollChannels |-> 0]
    /\ server_posts = [c \in PollChannels |-> {}]
    /\ server_clock = 0
    /\ post_channels = <<>>
    /\ answered = [c \in PollChannels |-> NoAnswer]
    /\ polled = {}
    /\ times_before = [c \in PollChannels |-> 0]
    /\ created_log = <<>>
    /\ readpc = "idle"
    /\ channels_to_read = <<>>
    /\ recent_posts = <<>>
    /\ read_result = [kind |-> "none", posts |-> <<>>]
    /\ fetched_ok = {}
    /\ fetch_failed = {}
    /\ snapshot = {}
    /\ invoked = <<>>
    /\ emit_arg = "none"
    /\ emit_error = FALSE
    /\ subscribers_after = {}
    /\ delivered = <<>>
    /\ ParkedStreaming
    /\ ParkedReactions
    /\ ParkedRateLimiter
    /\ ParkedRetry
    /\ ParkedWebSocket

NextPostPoll ==
    \/ StartPolling
    \/ StopPolling
    \/ PollCancelled
    \/ StopPollingResumes
    \/ PollSkip
    \/ Subscribe
    \/ Unsubscribe
    \/ PostPollWake
    \/ PostChannelsOk
    \/ PostChannelsFail
    \/ PostFetchOk
    \/ PostFetchFail
    \/ \E c \in PollChannels : RemotePosted(c)

SpecPostPoll == InitPostPoll /\ [][NextPostPoll]_vars

----------------------------------------------------------------------------
\* Post feed streaming: start_streaming, stop_streaming, the push handler and
\* the emit tasks it spawns, over the connection manager above

\* MattermostWebSocketClient.__init__: reconnect_delay: float = 5.0
DefaultReconnectDelay == 5
\* MattermostWebSocketClient.__init__: max_reconnect_attempts: int = 10
DefaultMaxReconnectAttempts == 10

\* _handle_new_post_event as the connection manager sees it: it catches its
\* own exceptions, so it always returns.
PushHandler == "h_ok"

\* The emit tasks a frame's dispatch leaves behind: one per call of the push
\* handler, each made by asyncio.create_task(self.emit_update(update)).
RECURSIVE SpawnedEmits(_)
SpawnedEmits(calls) ==
    IF calls = <<>> THEN <<>>
    ELSE (IF Head(calls) = PushHandler THEN <<"created">> ELSE <<>>)
             \o SpawnedEmits(Tail(calls))

\* The event loop runs callbacks in the order they were scheduled.  An emit
\* task is scheduled during a step of the connection task, and that task's
\* wake-up from the await it then suspends at is scheduled later: the emit
\* tasks have run before the connection task takes its next step.
EmitsDrained == pending_emits = <<>>

notStreamVars == <<reactVars, rlVars, retryVars, emitGhosts, delivered,
                   readVars, postPollVars, baseLoopVars>>

\* The connection loop of the client self._ws_client refers to is running.
ClientLoopRuns == connection_task = "set" /\ wspc \notin {"none", "done"}

\* Connection managers the hook built whose loop is running, each with the
\* push handler of the resource registered.
LiveManagers == orphans + (IF ClientLoopRuns THEN 1 ELSE 0)

\* start_streaming up to its first suspension: it raises when the resource
\* does not support streaming and returns when the resource is streaming;
\* else the flag is set, a new client is built with the default reconnect
\* settings and stored in self._ws_client, the push handler is registered,
\* connect() spawns the connection loop and the wait for is_connected
\* starts.  The client self._ws_client referred to before is followed no
\* further: if its loop is running it is counted in orphans.  A hook call
\* starts when no other hook call and no stop_streaming is in flight.
StartStreaming ==
    /\ UNCHANGED notStreamVars
    /\ IF ~supports_streaming
       THEN /\ start_outcome' = "raised"
            /\ UNCHANGED <<wsVars, is_streaming, ws_client, startpc,
                           stream_stopped, orphans>>
       ELSE IF is_streaming
       THEN /\ start_outcome' = "returned"
            /\ stream_stopped' = FALSE
            /\ UNCHANGED <<wsVars, is_streaming, ws_client, startpc, orphans>>
       ELSE /\ startpc = "idle"
            /\ sstoppc = "idle"
            /\ orphans' = LiveManagers
            /\ orphans' <= MaxOrphans
            /\ stream_stopped' = FALSE
            /\ UNCHANGED start_outcome
            /\ is_streaming' = TRUE
            /\ ws_client' = "set"
            /\ startpc' = "waiting"
            /\ auto_reconnect' = TRUE
            /\ reconnect_delay' = DefaultReconnectDelay
            /\ max_reconnect_attempts' = DefaultMaxReconnectAttempts
            /\ websocket' = "none"
            /\ is_connected' = FALSE
            /\ is_authenticated' = FALSE
            /\ reconnect_attempts' = 0
            /\ connection_task' = "set"
            /\ wspc' = "connecting"
            /\ cancel_requested' = FALSE
            /\ dpc' = "idle"
            /\ event_handlers' = [t \in EventTypes |->
                                     IF t = "posted" THEN <<PushHandler>>
                                     ELSE <<>>]
            /\ inbox' = <<>>
            /\ task_result' = "running"
            /\ exit_reason' = "none"
            /\ attempts_made' = 1
            /\ all_failed' = TRUE
            /\ loop_start_attempts' = 0
            /\ delays' = <<>>
            /\ auth_outcome' = "none"
            /\ ok_reply_arrived' = FALSE
            /\ last_dispatch' = NoDispatch
            /\ connect_raced' = FALSE
            /\ quiesced' = FALSE
            /\ repeated' = FALSE
    /\ UNCHANGED <<sstoppc, pending_emits, late_delivery, supports_streaming>>

\* The wait loop of _start_streaming sees is_connected: streaming started.
StartConnected ==
    /\ UNCHANGED notStreamVars
    /\ UNCHANGED wsVars
    /\ startpc = "waiting"
    /\ ws_client = "set"
    /\ is_connected /\ is_authenticated
    /\ startpc' = "idle"
    /\ start_outcome' = "returned"
    /\ UNCHANGED <<is_streaming, ws_client, sstoppc, pending_emits,
                   stream_stopped, late_delivery, supports_streaming, orphans>>

\* The 10 s of the wait loop pass without is_connected, or the client is
\* gone: _start_streaming raises, start_streaming clears the flag and raises.
\* The client and its connection loop stay as they are.
StartFails ==
    /\ UNCHANGED notStreamVars
    /\ UNCHANGED wsVars
    /\ startpc = "waiting"
    /\ ~(ws_client = "set" /\ is_connected /\ is_authenticated)
    /\ startpc' = "idle"
    /\ is_streaming' = FALSE
    /\ start_outcome' = "raised"
    /\ UNCHANGED <<ws_client, sstoppc, pending_emits, stream_stopped,
                   late_delivery, supports_streaming, orphans>>

\* stop_streaming up to its first suspension: nothing when the resource is
\* not streaming; else the flag is cleared and the client's disconnect() is
\* called, which returns at once or awaits the connection task.
StopStreaming ==
    /\ UNCHANGED notStreamVars
    /\ sstoppc = "idle"
    /\ IF ~is_streaming \/ ws_client = "none"
       THEN /\ is_streaming' = FALSE
            /\ stream_stopped' = TRUE
            /\ UNCHANGED <<wsVars, ws_client, sstoppc>>
       ELSE /\ is_streaming' = FALSE
            /\ WsDisconnectStep
            /\ IF connection_task = "set" /\ wspc \notin {"none", "done"}
               THEN /\ sstoppc' = "await_disconnect"
                    /\ UNCHANGED <<ws_client, stream_stopped>>
               ELSE /\ ws_client' = "none"
                    /\ stream_stopped' = TRUE
                    /\ UNCHANGED sstoppc
    /\ UNCHANGED <<startpc, pending_emits, late_delivery, streamAux>>

\* disconnect() resumes and returns; _stop_streaming forgets the client and
\* stop_streaming returns.
StopStreamingResumes ==
    /\ UNCHANGED notStreamVars
    /\ sstoppc = "await_disconnect"
    /\ WsDisconnectResumesStep
    /\ sstoppc' = "idle"
    /\ ws_client' = "none"
    /\ stream_stopped' = TRUE
    /\ UNCHANGED <<is_streaming, startpc, pending_emits, late_delivery,
                   streamAux>>

\* The message loop reads a frame; a "posted" event reaches the push handler,
\* which builds the update and spawns the task that will emit it.
StreamFrame ==
    /\ UNCHANGED notStreamVars
    /\ Len(pending_emits) < MaxInbox
    /\ WsFrameStep
    /\ pending_emits' = pending_emits \o SpawnedEmits(HandleMessage(Head(inbox)))
    /\ UNCHANGED <<is_streaming, ws_client, startpc, sstoppc, stream_stopped,
                   late_delivery, streamAux>>

\* An emit task runs: emit_update delivers the update to the subscribers.
EmitTaskRuns ==
    /\ UNCHANGED notStreamVars
    /\ UNCHANGED wsVars
    /\ pending_emits # <<>>
    /\ pending_emits' = Tail(pending_emits)
    /\ late_delivery' = (late_delivery \/ (stream_stopped /\ subscribers # {}))
    /\ UNCHANGED <<is_streaming, ws_client, startpc, sstoppc, stream_stopped,
                   streamAux>>

\* The loop of a client left behind ends: it gave up after
\* max_reconnect_attempts failures in a row.
OrphanGivesUp ==
    /\ UNCHANGED notStreamVars
    /\ UNCHANGED wsVars
    /\ orphans > 0
    /\ orphans' = orphans - 1
    /\ UNCHANGED <<is_streaming, ws_client, startpc, sstoppc, pending_emits,
                   stream_stopped, late_delivery, supports_streaming,
                   start_outcome>>

\* Steps of the connection task that follow a suspension in the message loop.
StreamReadError == EmitsDrained /\ WsReadError

StreamClosedNormally == EmitsDrained /\ WsClosedNormally

StreamCancelled == EmitsDrained /\ WsCancelled

InitStreaming ==
    /\ ParkedBaseLoop
    /\ is_streaming = FALSE
    /\ ws_client = "none"
    /\ startpc = "idle"
    /\ sstoppc = "idle"
    /\ pending_emits = <<>>
    /\ stream_stopped = FALSE
    /\ late_delivery = FALSE
    /\ supports_streaming \in BOOLEAN
    /\ orphans = 0
    /\ start_outcome = "none"
    /\ snapshot = {}
    /\ invoked = <<>>
    /\ emit_arg = "none"
    /\ emit_error = FALSE
    /\ subscribers_after = {}
    /\ delivered = <<>>
    /\ ParkedRead
    /\ ParkedPostPoll
    /\ ParkedReactions
    /\ ParkedRateLimiter
    /\ ParkedRetry
    /\ ParkedWebSocket

NextStreaming ==
    \/ StartStreaming
    \/ StartConnected
    \/ StartFails
    \/ StopStreaming
    \/ StopStreamingResumes
    \/ StreamFrame
    \/ EmitTaskRuns
    \/ OrphanGivesUp
    \/ StreamReadError
    \/ StreamClosedNormally
    \/ StreamCancelled
    \/ Subscribe
    \/ Unsubscribe
    \/ \E f \in {OkReply, PostedEvent} : ServerSends(f)
    \/ WsConnectFails
    \/ WsConnectOpens
    \/ WsAuthOk
    \/ WsAuthRejected
    \/ WsAuthFails
    \/ WsBackoffEnds

SpecStreaming == InitStreaming /\ [][NextStreaming]_vars

----------------------------------------------------------------------------
\* Connection manager: properties

\* The loop has stopped because the counter passed the ceiling, having
\* started from a counter of zero, with no attempt authenticated.
GaveUpAfterFailures ==
    /\ auto_reconnect
    /\ wspc = "done"
    /\ exit_reason = "gave_up"
    /\ all_failed
    /\ loop_start_attempts = 0

\* C9: with auto-reconnect on and every attempt failing, a loop started from
\* a fresh counter stops once the counter exceeds max_reconnect_attempts,
\* after exactly max_reconnect_attempts + 1 connection attempts; its task
\* returns rather than raising, the client is left not connected with no
\* socket, and the stopped loop makes no further attempt (only a new
\* connect() call makes one).
C9_GiveUpPastCeiling ==
    /\ [](GaveUpAfterFailures =>
            /\ attempts_made = max_reconnect_attempts + 1
            /\ reconnect_attempts = max_reconnect_attempts + 1
            /\ task_result = "returned"
            /\ ~is_connected
            /\ ~is_authenticated
            /\ websocket = "none")
    /\ [][(wspc = "done" /\ exit_reason = "gave_up"
             /\ exit_reason' = "gave_up")
            => /\ attempts_made' = attempts_made
               /\ wspc' = "done"
               /\ ~is_connected' /\ ~is_authenticated'
               /\ websocket' = "none"]_vars

C9_Witness ==
    /\ GaveUpAfterFailures
    /\ max_reconnect_attempts = MaxReconnect
    /\ attempts_made = MaxReconnect + 1
    /\ Len(delays) = MaxReconnect

\* C10: the backoff delays computed since the last successful
\* authentication never decrease and never exceed the 300 second cap.
C10_DelaysMonotoneCapped ==
    /\ \A i \in 1..Len(delays) : delays[i] <= ReconnectDelayCap
    /\ \A i \in 1..Len(delays) : \A j \in i..Len(delays) :
          delays[i] <= delays[j]

C10_Witness ==
    /\ Len(delays) >= 2
    /\ delays[1] < delays[2]
    /\ delays[2] = ReconnectDelayCap
    /\ reconnect_delay * Pow2(2) > ReconnectDelayCap

\* C11: the connection is connected-authenticated exactly when the reply
\* {status: "OK", seq_reply: 1} reaches the socket during the wait, whatever
\* frames arrive around it; any other outcome fails the attempt; is_connected
\* is false until that reply has been read.
C11_AuthOnCorrelatedReply ==
    /\ (wspc = "auth_wait" => ~(is_connected /\ is_authenticated))
    /\ ((is_connected /\ is_authenticated) => auth_outcome = "ok")
    /\ (auth_outcome = "ok" => ok_reply_arrived)
    /\ (auth_outcome = "failed" => ~ok_reply_arrived)

\* C12: for every event frame the message loop reads, the handlers registered
\* for its event type are each called once, in order, whether or not one of
\* them raises; text that is not JSON and frames without an event call
\* nothing; after any frame the loop is still reading, with the frames
\* behind it still buffered.
C12_EveryHandlerCalled ==
    /\ [](last_dispatch # NoDispatch =>
            /\ last_dispatch.calls = last_dispatch.registered
            /\ (last_dispatch.frame.event \notin EventTypes
                   => last_dispatch.calls = <<>>)
            /\ wspc = "reading"
            /\ websocket = "open")
    /\ [][(LoopAt("reading") /\ inbox # <<>> /\ last_dispatch' # NoDispatch
             /\ inbox' # inbox /\ Len(inbox') < Len(inbox))
            => /\ wspc' = "reading"
               /\ inbox' = Tail(inbox)
               /\ last_dispatch'.frame = Head(inbox)
               /\ (Head(inbox).event \in EventTypes =>
                     last_dispatch'.calls = event_handlers[Head(inbox).event])]_vars

C12_Witness ==
    /\ last_dispatch.frame = PostedEvent
    /\ last_dispatch.registered = <<"h_raise", "h_ok">>
    /\ last_dispatch.calls = <<"h_raise", "h_ok">>
    /\ event_handlers["typing"] = <<>>
    /\ inbox = <<Garbage, PostedEvent>>

\* The state disconnect() is to leave behind.
Disconnected ==
    /\ ~auto_reconnect
    /\ connection_task = "none"
    /\ wspc \in {"none", "done"}
    /\ ~cancel_requested
    /\ websocket = "none"
    /\ ~is_connected
    /\ ~is_authenticated
    /\ task_result \in {"none", "returned", "cancelled"}

C14_QuietAfterDisconnect ==
    quiesced =>
        /\ websocket = "none"
        /\ wspc \in {"none", "done"}
        /\ last_dispatch = NoDispatch


\* The flags follow the socket: an authenticated client is connected and a
\* connected client holds a socket.
FlagsFollowSocket ==
    /\ is_authenticated => is_connected
    /\ is_connected => websocket = "open"

\* The auth frame goes out in the step that opens a socket and in no other:
\* the loop awaits the reply exactly when it has just opened one.
AuthSentOnOpen ==
    [][(wspc' = "auth_wait" /\ wspc # "auth_wait")
          <=> (websocket = "none" /\ websocket' = "open")]_vars

\* No inbound frame is handled before the reply to the auth frame was read:
\* the read loop is entered from the wait for the reply only.
NoReadBeforeAuth ==
    /\ [][(wspc' = "reading" /\ wspc # "reading")
             => wspc = "auth_wait" /\ auth_outcome' = "ok"]_vars
    /\ [](last_dispatch # NoDispatch => wspc \in {"reading", "backoff", "done"})

\* The attempt is over: the loop sleeps before the next one, is about to
\* open the next socket, or has ended.
AttemptEnded == wspc \in {"backoff", "connecting", "done"}

\* C27: authenticated implies connected and connected implies a socket; the
\* auth frame is sent once per opened socket, on opening it and before any
\* inbound frame is read; once an attempt has ended both flags are false and
\* the socket is released.
C27_FlagsFollowSocket ==
    /\ []FlagsFollowSocket
    /\ AuthSentOnOpen
    /\ NoReadBeforeAuth
    /\ [](AttemptEnded
            => ~is_connected /\ ~is_authenticated /\ websocket = "none")

\* The step in which the wait for the auth reply ends with the OK reply.
AuthSucceeds == wspc = "auth_wait" /\ wspc' = "reading"

\* The step in which the loop gives up.
GivesUp == exit_reason # "gave_up" /\ exit_reason' = "gave_up"

\* C28: a successful authentication leaves the attempt counter at 0, and it
\* stays 0 while the connection is read; from there the counter is the
\* number of failures since that authentication: the k-th failure sleeps
\* ReconnectDelay(k), and the loop gives up on the failure that follows
\* max_reconnect_attempts backoffs, whatever failed before the
\* authentication.
C28_CounterResetOnAuth ==
    /\ [][AuthSucceeds => reconnect_attempts' = 0]_vars
    /\ [](wspc = "reading" => reconnect_attempts = 0)
    /\ [](reconnect_attempts <= max_reconnect_attempts
            => reconnect_attempts = Len(delays))
    /\ [][(delays' # delays /\ delays' # <<>>)
            => delays' = Append(delays, ReconnectDelay(Len(delays) + 1))]_vars
    /\ [][GivesUp => Len(delays) = max_reconnect_attempts]_vars

\* The loop failed, authenticated on a later attempt, and failed again: it
\* sleeps the first delay, with the counter at 1.
C28_Witness ==
    /\ wspc = "backoff"
    /\ ~all_failed
    /\ attempts_made >= 2
    /\ reconnect_attempts = 1
    /\ delays = <<ReconnectDelay(1)>>

\* The loop task holds a connection or is opening one.
InAttempt == wspc \in {"connecting", "auth_wait", "reading"}

\* C37: with auto-reconnect off, a step of the loop that ends its attempt,
\* by a failure or by the server closing the connection, ends the loop: the
\* loop neither sleeps for a retry nor starts another attempt.
C37_NoReconnectWhenDisabled ==
    /\ [][(~auto_reconnect /\ InAttempt /\ ~InAttempt') => wspc' = "done"]_vars
    /\ [][(~auto_reconnect /\ wspc \in {"auth_wait", "reading"})
            => wspc' # "connecting"]_vars

\* A later attempt of the loop starts from the backoff sleep only.
AttemptAfterBackoff ==
    [][(wspc \in {"auth_wait", "reading", "backoff"} /\ wspc' = "connecting")
          => wspc = "backoff"]_vars

\* Entering the backoff sleep counts the attempt and sleeps at least
\* reconnect_delay seconds.
BackoffCountsAndWaits ==
    [][(wspc # "backoff" /\ wspc' = "backoff")
          => /\ reconnect_attempts' = reconnect_attempts + 1
             /\ delays' # <<>>
             /\ delays'[Len(delays')] >= reconnect_delay]_vars

\* C38: an attempt of the loop other than its first follows a backoff sleep
\* of at least reconnect_delay seconds, entered with the attempt counter
\* incremented, however the previous connection ended.
C38_BackoffBeforeReconnect ==
    /\ AttemptAfterBackoff
    /\ BackoffCountsAndWaits

\* C15: once stop_polling has returned, and until start_polling is called
\* again, the polling loop has terminated and no step delivers an update of
\* a poll cycle to a subscriber; a stop_polling call that finds no running
\* task returns without touching the loop.
C15_StoppedAfterStopPolling ==
    /\ [](stopped => pollpc = "idle")
    /\ [][stopped => emitted' = emitted]_vars



----------------------------------------------------------------------------
\* Post feed streaming: properties

\* C16: once stop_streaming has returned, and until start_streaming is
\* called again, no emit task of a pushed event delivers an update to a
\* subscriber; a stop_streaming call on a resource that is not streaming
\* changes neither the resource nor its client.
C16_NoPushAfterStopStreaming ==
    /\ []~late_delivery
    /\ [][(/\ ~is_streaming
           /\ sstoppc = "idle"
           /\ ~stream_stopped
           /\ stream_stopped')
          => UNCHANGED <<wsVars, is_streaming, ws_client, pending_emits,
                         subscribers>>]_vars

\* A step in which start_streaming invokes the hook _start_streaming.
HookInvoked == startpc = "idle" /\ startpc' = "waiting"

\* A step in which the hook raises out of start_streaming.
HookRaised == startpc = "waiting" /\ startpc' = "idle" /\ start_outcome' = "raised"

\* On a streaming resource no step invokes the hook.
NoHookWhileStreaming == [][is_streaming => ~HookInvoked]_vars

\* A resource that does not support streaming is never streaming and no
\* start_streaming call on it returns.
UnsupportedNeverStreams ==
    [](~supports_streaming => ~is_streaming /\ start_outcome # "returned")

\* When the hook raises the flag is false afterwards.
HookErrorResetsFlag == [][HookRaised => ~is_streaming']_vars

\* C21: start_streaming on a streaming resource returns without invoking
\* the hook, so that the resource never has more than one connection manager
\* running for it; on a resource that does not support streaming it raises
\* and the resource stays not streaming; when the hook raises the flag is
\* false again and the call raises.
C21_StartStreamingIdempotent ==
    /\ [](LiveManagers <= 1)
    /\ NoHookWhileStreaming
    /\ UnsupportedNeverStreams
    /\ HookErrorResetsFlag

\* The last start_streaming call raised and none has been made since.
StartRaised == start_outcome = "raised" /\ startpc = "idle"

\* C35: after a start_streaming call that raised, and until the next call,
\* no connection manager built for the resource is running and no pushed
\* event is turned into an update; and a start_streaming call that returns
\* leaves exactly one manager running.
C35_FailedStartLeavesNothing ==
    /\ [](StartRaised => LiveManagers = 0)
    /\ [][StartRaised => Len(pending_emits') <= Len(pending_emits)]_vars
    /\ [][(startpc = "waiting" /\ startpc' = "idle"
             /\ start_outcome' = "returned")
            => LiveManagers' = 1]_vars

----------------------------------------------------------------------------
\* Update fan-out: properties

\* The number of calls of cb in a call log.
CallsOf(cb, calls) == Cardinality({i \in DOMAIN calls : calls[i].cb = cb})

\* C17: an emit_update(u) calls every callback subscribed when it started
\* exactly once, with u, and no other callback, whatever the callbacks do to
\* the subscriber set meanwhile; a raising callback stops neither the
\* remaining calls nor the emitter, and is still subscribed afterwards.
C17_EmitCallsSnapshotOnce ==
    emit_arg # "none" =>
        /\ ~emit_error
        /\ \A cb \in EmitCallbacks :
              CallsOf(cb, invoked) = IF cb \in snapshot THEN 1 ELSE 0
        /\ \A i \in DOMAIN invoked : invoked[i].update = emit_arg
        /\ \A cb \in snapshot :
              CallbackRaises(cb) => cb \in subscribers_after

\* An emit in which the raising callback is called first, another callback
\* unsubscribes one not yet called and a third subscribes a new one.
C17_Witness ==
    /\ emit_arg = "u2"
    /\ snapshot = {"cb_ok", "cb_raise", "cb_leave", "cb_join"}
    /\ invoked[1].cb = "cb_raise"
    /\ invoked[2].cb = "cb_leave"
    /\ invoked[3].cb = "cb_ok"
    /\ subscribers_after = {"cb_raise", "cb_join", "cb_late"}


----------------------------------------------------------------------------
\* Dedup keys: properties

\* C19: a push update and a later poll update that report the same logical
\* event (the same post id, or the same reaction key with the same kind)
\* carry the same dedup key; for a post both have kind "created" and the key
\* is the same whatever else differs between the two copies of the post.
C19_SameEventSameDedupKey ==
    \A i, j \in DOMAIN delivered :
        (/\ i < j
         /\ delivered[i].origin = "push"
         /\ delivered[j].origin = "poll"
         /\ delivered[i].key = delivered[j].key
         /\ delivered[i].update_type = delivered[j].update_type)
        => delivered[i].event_id = delivered[j].event_id

\* A post reported by push and then by poll, followed by the polled removal
\* of a reaction whose emoji name holds a colon.
C19_Witness ==
    /\ Len(delivered) = 3
    /\ delivered[1].origin = "push"
    /\ delivered[1].update_type = "created"
    /\ delivered[2] = [delivered[1] EXCEPT !.origin = "poll"]
    /\ delivered[3].origin = "poll"
    /\ delivered[3].update_type = "reaction_removed"
    /\ delivered[3].key[3] = <<"a", ":", "b">>


\* Two delivered updates report the same state change: the same key and
\* kind, with no update of the other kind for that key between them.
SameChange(i, j) ==
    /\ delivered[i].key = delivered[j].key
    /\ delivered[i].update_type = delivered[j].update_type
    /\ \A m \in (i + 1)..(j - 1) :
          delivered[m].key = delivered[i].key
              => delivered[m].update_type = delivered[i].update_type

\* C40: two updates carry the same dedup key only when they report the same
\* state change; a reaction added, removed and added again is reported with
\* a key for the second addition that differs from the first one's.
C40_SameKeySameChange ==
    \A i \in DOMAIN delivered : \A j \in DOMAIN delivered :
        (i < j /\ delivered[i].event_id = delivered[j].event_id)
            => SameChange(i, j)

----------------------------------------------------------------------------
\* Post feed snapshot: properties

\* The posts of the channels whose fetch answered.
FetchedPosts ==
    UNION {{ServerPosts(c)[k] : k \in DOMAIN ServerPosts(c)} : c \in fetched_ok}

\* C20: a read() that obtained its channel list returns the posts of the
\* channels whose fetch answered, and none of a channel whose fetch failed,
\* as one list without repetition, sorted descending by create_at (a post
\* without one counting as 0) and cut to the 50 newest; channels holding
\* posts created at 100, 300 and at 200 give 300, 200, 100.
C20_ReadMergedSortedCapped ==
    (readpc = "done" /\ fetched_ok \cup fetch_failed # {}) =>
        LET posts == read_result.posts
        IN  /\ read_result.kind = "posts"
            /\ \A i \in DOMAIN posts : posts[i] \in FetchedPosts
            /\ \A i, j \in DOMAIN posts : i < j =>
                  /\ posts[i] # posts[j]
                  /\ posts[i].create_at >= posts[j].create_at
            /\ Len(posts) = IF Cardinality(FetchedPosts) < ReadLimit
                            THEN Cardinality(FetchedPosts) ELSE ReadLimit
            /\ \A q \in FetchedPosts :
                  (\A i \in DOMAIN posts : posts[i] # q) =>
                      \A i \in DOMAIN posts : posts[i].create_at >= q.create_at
            /\ fetched_ok = {1, 2} =>
                  [i \in DOMAIN posts |-> posts[i].create_at] = <<300, 200, 100>>


----------------------------------------------------------------------------
\* Post feed polling: properties

\* The channels in scope of the poll cycles.
PollScope ==
    IF channel_ids # <<>> THEN {channel_ids[i] : i \in DOMAIN channel_ids}
    ELSE {TeamChannels[i] : i \in DOMAIN TeamChannels}

\* A cycle that had its channel list has run to its end.
CycleOver ==
    /\ cycle > 0
    /\ pollpc = "sleep"
    /\ post_channels = <<>>
    /\ polled # {}

\* create_at of the posts the cycle emitted created updates for in channel c,
\* in emission order.
CreatedIn(c) ==
    LET ups == SelectSeq(emitted, LAMBDA u : u.channel_id = c)
    IN  [i \in DOMAIN ups |-> ups[i].post_id[2]]

Greatest(S) == CHOOSE t \in S : \A x \in S : x <= t

\* C18: with a channel X whose every fetch raises, a cycle that runs to its
\* end has polled every other channel Y in scope; for a Y whose fetch
\* answered it emitted one created update per post newer than Y's stored
\* timestamp, oldest first, and raised the timestamp to the newest; the step
\* that handles X's failure changes no stored timestamp and leaves the loop
\* running.
C18_OtherChannelsProceed ==
    /\ [](CycleOver =>
            \A y \in PollScope \ {failing_channel} :
                /\ y \in polled
                /\ answered[y] = NoAnswer =>
                      last_post_times[y] = times_before[y]
                /\ answered[y] # NoAnswer =>
                      LET new == {t \in answered[y] : t > times_before[y]}
                          seq == CreatedIn(y)
                      IN  /\ {seq[i] : i \in DOMAIN seq} = new
                          /\ Len(seq) = Cardinality(new)
                          /\ \A i, j \in DOMAIN seq : i < j => seq[i] < seq[j]
                          /\ last_post_times[y] =
                                Greatest(new \cup {times_before[y]}))
    /\ [][(/\ pollpc = "fetch_posts"
           /\ Head(post_channels) = failing_channel
           /\ polled' # polled)
          => (/\ last_post_times' = last_post_times
              /\ emitted' = emitted
              /\ pollpc' \in {"fetch_posts", "sleep"}
              /\ polling_task' = polling_task)]_vars

PostPolled(c) ==
    /\ pollpc = "fetch_posts"
    /\ post_channels # <<>>
    /\ Head(post_channels) = c
    /\ answered[c] = NoAnswer
    /\ answered'[c] # NoAnswer

\* C31: the poll of a channel whose fetch answered appends to the emitted
\* updates one created update per fetched post whose create_at is above the
\* timestamp stored when the poll began, and no other update, in ascending
\* create_at order; the stored timestamp becomes the largest create_at
\* emitted, or stays when nothing was emitted, and no other channel's
\* timestamp changes.
C31_NewPostsAscending ==
    [][\A c \in PollChannels :
          PostPolled(c) =>
              LET new == {t \in answered'[c] : t > last_post_times[c]}
                  out == SubSeq(emitted', Len(emitted) + 1, Len(emitted'))
              IN  /\ Len(emitted') >= Len(emitted)
                  /\ SubSeq(emitted', 1, Len(emitted)) = emitted
                  /\ Len(out) = Cardinality(new)
                  /\ \A i \in DOMAIN out :
                        /\ out[i].update_type = "created"
                        /\ out[i].channel_id = c
                        /\ out[i].post_id[1] = c
                        /\ out[i].post_id[2] \in new
                  /\ \A i, j \in DOMAIN out :
                        i < j => out[i].post_id[2] < out[j].post_id[2]
                  /\ last_post_times'[c] =
                        (IF new = {} THEN last_post_times[c] ELSE Greatest(new))
                  /\ \A d \in PollChannels \ {c} :
                        last_post_times'[d] = last_post_times[d]]_vars

\* A poll found both posts of a channel new and emitted them oldest first.
C31_Witness ==
    \E c \in polled :
        /\ answered[c] = {1, 2}
        /\ times_before[c] = 0
        /\ CreatedIn(c) = <<1, 2>>
        /\ last_post_times[c] = 2

C18_Witness ==
    /\ CycleOver
    /\ cycle = 2
    /\ channel_ids = <<1, 2>>
    /\ failing_channel = 1
    /\ polled = {1, 2}
    /\ times_before[2] = 1
    /\ CreatedIn(2) = <<2>>
    /\ last_post_times = [c \in PollChannels |-> IF c = 2 THEN 2 ELSE 0]

----------------------------------------------------------------------------
\* HTTP transport: properties

\* An attempt failed in a way the loop retries.
Retryable(o) == o.kind = "exception" \/ o.status \in RetryOnStatus

\* C6: when the first k <= max_retries attempts fail retryably and attempt
\* k+1 gets a non-retryable response, the loop has made exactly k+1 HTTP
\* attempts, one rate limiter call before each, and k sleeps of
\* backoff_factor * 2^attempt (attempt = 0..k-1), and returns that response.
C6_RetryThenAnswer ==
    /\ acquire_calls = http_attempts + (IF reqpc = "send" THEN 1 ELSE 0)
    /\ \A i \in DOMAIN history :
          (history[i].kind = "response" /\ history[i].status \notin RetryOnStatus)
          => /\ i = Len(history)
             /\ i <= max_retries + 1
             /\ reqpc = "done"
             /\ http_attempts = i
             /\ acquire_calls = i
             /\ Len(sleeps) = i - 1
             /\ \A j \in 1..(i - 1) : sleeps[j] = retry_backoff_factor * Pow2(j - 1)
             /\ retry_result = [kind |-> "response", response |-> history[i]]

\* 503, then a network error, then 200 with max_retries = 2.
C6_Witness ==
    /\ max_retries = 2
    /\ Len(history) = 3
    /\ history[1].status = 503
    /\ history[2].kind = "exception"
    /\ history[3].status = 200
    /\ reqpc = "done"
    /\ Len(sleeps) = 2
    /\ result.kind = "return"

\* C7: when all max_retries + 1 attempts fail retryably, by status responses
\* or by network errors, the call raises the wrapped transport error after
\* exactly max_retries + 1 attempts and returns no value.
C7_ExhaustionRaisesWrapped ==
    (/\ reqpc = "done"
     /\ Len(history) = max_retries + 1
     /\ \A i \in DOMAIN history : Retryable(history[i]))
    => /\ http_attempts = max_retries + 1
       /\ retry_result.kind = "raise"
       /\ result = WrappedError

\* C8: when the final response is a 429 whose Retry-After is the number N,
\* request() sleeps N seconds and raises a RateLimitError with retry_after N.
C8_RateLimitCarriesRetryAfter ==
    (/\ reqpc = "done"
     /\ retry_result.kind = "response"
     /\ retry_result.response.status = 429
     /\ Truthy(retry_result.response.header)
     /\ ParseFloat(retry_result.response.header.value).ok)
    => /\ result.kind = "raise"
       /\ result.error = "RateLimitError"
       /\ result.slept = ParseFloat(retry_result.response.header.value).value
       /\ result.retry_after = ParseFloat(retry_result.response.header.value).value

\* The error type the claim names for a status code.
ExpectedError(st) ==
    CASE st = 400 -> "ValidationError"
      [] st = 401 -> "AuthenticationError"
      [] st = 403 -> "AuthorizationError"
      [] st = 404 -> "NotFoundError"
      [] st = 409 -> "ConflictError"
      [] st = 429 -> "RateLimitError"
      [] st \in 500..599 -> "ServerError"
      [] OTHER -> "HTTPError"

\* The retry_after the claim names for the Retry-After texts of the model.
ExpectedRetryAfter(h) ==
    IF ~h.present THEN NoneValue
    ELSE CASE h.value = <<"3", "0">> -> 30
           [] h.value = <<"7">> -> 7
           [] OTHER -> NoneValue

\* C22: for every response with a status >= 400 the client received,
\* create_http_exception gives the error type that belongs to the status,
\* with retry_after taken from Retry-After for a 429 (30 for "30", None when
\* the header is absent or no number) and None otherwise; and request()
\* raises an error of that type when such a response is the final one.
C22_TypedErrors ==
    /\ \A i \in DOMAIN history :
          (history[i].kind = "response" /\ history[i].status >= 400)
          => /\ CreateHttpException(history[i]).kind = "raise"
             /\ CreateHttpException(history[i]).error
                    = ExpectedError(history[i].status)
             /\ CreateHttpException(history[i]).status = history[i].status
             /\ CreateHttpException(history[i]).retry_after
                    = (IF history[i].status = 429
                       THEN ExpectedRetryAfter(history[i].header)
                       ELSE NoneValue)
    /\ (/\ reqpc = "done"
        /\ retry_result.kind = "response"
        /\ retry_result.response.status >= 400)
       => /\ result.kind = "raise"
          /\ ~result.wrapped
          /\ result.status = retry_result.response.status
          /\ result.error = ExpectedError(retry_result.response.status)

\* A 429 with Retry-After: 30 is retried and a 409 is the final response.
C22_Witness ==
    /\ reqpc = "done"
    /\ Len(history) = 2
    /\ history[1].status = 429
    /\ history[1].header.value = <<"3", "0">>
    /\ history[2].status = 409
    /\ result.error = "ConflictError"

----------------------------------------------------------------------------
\* Rate limiter: properties

\* C4: the number of acquire() calls that return within any time window of
\* length w is at most burst + w * rate; in particular at most burst calls
\* return at the same instant.  (Both sides are scaled by ticks_per_token.)
C4_RateBound ==
    \A i \in DOMAIN acquired : \A j \in DOMAIN acquired :
        i <= j =>
            (j - i + 1) * OneToken
                <= burst * OneToken + (acquired[j].returned - acquired[i].returned)

\* C5: on a fresh limiter the first burst calls return without sleeping, and
\* the call after them blocks for at least (1 - remainder) / rate, remainder
\* being the token count it found after the refill.
C5_BurstThenBlock ==
    \A i \in DOMAIN acquired :
        /\ i <= burst =>
              /\ ~acquired[i].slept
              /\ acquired[i].returned = acquired[i].entered
        /\ i = burst + 1 =>
              acquired[i].returned - acquired[i].entered
                  >= OneToken - acquired[i].remainder

\* Burst 2 at one token per two ticks, three calls at time 0: the third
\* finds an empty bucket and returns two ticks later.
C5_Witness ==
    /\ burst = 2
    /\ ticks_per_token = 2
    /\ Len(acquired) >= 3
    /\ acquired[2].returned = 0
    /\ acquired[3].slept
    /\ acquired[3].remainder = 0
    /\ acquired[3].returned - acquired[3].entered = 2

\* C23: acquire() is one critical section.  While a caller holds the lock,
\* asleep for its token, the token state changes only by that caller waking
\* up; and callers that queued for the lock enter the critical section and
\* complete acquire() in the order of their calls: while callers wait, the
\* next one to enter or to complete is the holder or the first in the queue.
C23_AcquireSerialized ==
    /\ [][lock_holder # NoTask
          => \/ <<tokens, last_refill>>' = <<tokens, last_refill>>
             \/ /\ lock_holder' = NoTask
                /\ rlpc'[lock_holder] = "idle"
                /\ acquired'[Len(acquired')].task = lock_holder]_vars
    /\ [][lock_waiters # <<>>
          => /\ (lock_holder' # lock_holder /\ lock_holder' # NoTask)
                   => lock_holder' = Head(lock_waiters)
             /\ acquired' # acquired
                   => acquired'[Len(acquired')].task
                         = (IF lock_holder # NoTask THEN lock_holder
                            ELSE Head(lock_waiters))]_vars

\* A caller has completed, another holds the lock asleep, and two more wait
\* in the queue.
C23_Witness ==
    /\ lock_holder # NoTask
    /\ rlpc[lock_holder] = "sleeping"
    /\ Len(lock_waiters) = 2
    /\ acquired # <<>>

\* C24: whenever the lock is free the token count is between 0 and burst.
C24_TokensWithinBurst ==
    lock_holder = NoTask => (0 <= tokens /\ tokens <= burst * OneToken)

\* After a call that slept for its token and a pause, a call found the
\* bucket refilled to burst, and the lock is free.
C24_Witness ==
    /\ lock_holder = NoTask
    /\ \E i \in DOMAIN acquired : \E j \in DOMAIN acquired :
          /\ i < j
          /\ acquired[i].slept
          /\ ~acquired[j].slept
          /\ acquired[j].remainder = burst * OneToken
          /\ acquired[j].entered > acquired[i].returned + OneToken

----------------------------------------------------------------------------
\* Reaction feed: properties

\* Number of updates of one type the cycle emitted for reaction r.
EmittedCount(type, r) ==
    Cardinality({i \in DOMAIN emitted :
                    /\ emitted[i].update_type = type
                    /\ emitted[i].post_id = r[1]
                    /\ emitted[i].user_id = r[2]
                    /\ emitted[i].emoji_name = r[3]})

\* The cache content that stands for a set of remote reactions.
ExpectedKeys(S) == {r[1] \o <<":">> \o r[2] \o <<":">> \o r[3] : r \in S}

\* A cycle has ended and both it and the cycle before it fully read the
\* remote state (prevRead, then lastRead).
TwoFullReads ==
    /\ pollpc \in {"sleep", "idle"}
    /\ prevRead # NoRead
    /\ lastRead # NoRead

\* C1: when two consecutive poll cycles fully read S1 and then S2, the second
\* cycle emits exactly one reaction_added per key of S2 \ S1, exactly one
\* reaction_removed per key of S1 \ S2, and nothing else.
C1_ReconcileComplete ==
    TwoFullReads =>
        /\ \A r \in Reactions :
              /\ EmittedCount("reaction_added", r) =
                    IF r \in lastRead \ prevRead THEN 1 ELSE 0
              /\ EmittedCount("reaction_removed", r) =
                    IF r \in prevRead \ lastRead THEN 1 ELSE 0
        /\ Len(emitted) = Cardinality(lastRead \ prevRead)
                            + Cardinality(prevRead \ lastRead)

\* {A,B} -> {A,C}: one key kept, one added, one removed, two updates.
C1_Witness ==
    /\ TwoFullReads
    /\ prevRead \cap lastRead # {}
    /\ lastRead \ prevRead # {}
    /\ prevRead \ lastRead # {}
    /\ Len(emitted) = 2

\* C2: when two consecutive poll cycles fully read the same set S, the second
\* emits no update and leaves the cache equal to S.
C2_ReconcileIdempotent ==
    (TwoFullReads /\ prevRead = lastRead) =>
        /\ emitted = <<>>
        /\ known_reactions = ExpectedKeys(lastRead)

C2_Witness ==
    /\ TwoFullReads
    /\ prevRead = lastRead
    /\ lastRead # {}
    /\ cycle >= 2
    /\ known_reactions # {}

\* C3: the first poll cycle emits no reaction_removed update, whether it
\* reads everything or fails part-way; when it fully read the remote state it
\* leaves that state in the cache.
C3_FirstCycleNoRemovals ==
    cycle = 1 =>
        /\ \A i \in DOMAIN emitted : emitted[i].update_type # "reaction_removed"
        /\ (pollpc \in {"sleep", "idle"} /\ lastRead # NoRead)
              => known_reactions = ExpectedKeys(lastRead)

\* The first cycle ran against a non-empty remote state, one fetch failed, and
\* the cycle ended having announced and cached what it did read.
C3_Witness ==
    /\ cycle = 1
    /\ pollpc = "sleep"
    /\ last_poll_time
    /\ remote # {}
    /\ ~cycleRead
    /\ known_reactions # {}
    /\ emitted # <<>>

\* The cache key an update speaks of.
UpdateKey(update) ==
    ReactionKey(update.post_id, update.user_id, update.emoji_name)

\* The keys the updates of one type in a log speak of.
KeysOf(log, type) ==
    {UpdateKey(log[i]) : i \in {j \in DOMAIN log : log[j].update_type = type}}

C29_SkipWithoutSubscribers ==
    /\ [][cycle' # cycle => pollpc = "sleep" /\ subscribers # {}]_vars
    /\ [][(pollpc = "sleep" /\ subscribers = {})
            => /\ pollpc' \in {"sleep", "idle"}
               /\ cycle' = cycle
               /\ known_reactions' = known_reactions
               /\ last_poll_time' = last_poll_time
               /\ emitted' = emitted]_vars
    /\ []((pollpc = "sleep" /\ ~poll_cancel /\ subscribers # {})
            => /\ ~ENABLED PollSkip
               /\ cycle < MaxCycles => ENABLED PollWake)

\* The loop sleeps with no subscriber after a cycle that filled the cache,
\* while the reactions on the server are no longer those of the cache.
C29_Witness ==
    /\ pollpc = "sleep"
    /\ ~poll_cancel
    /\ subscribers = {}
    /\ cycle = 1
    /\ known_reactions # {}
    /\ known_reactions # {ReactionKey(r[1], r[2], r[3]) : r \in remote}

----------------------------------------------------------------------------
\* Polling loop of the base class: properties

\* A suspension point of the loop task.
LoopSuspensions == {"sleep", "hook", "backoff"}

\* C30: a hook call ends in the next sleep or in the back-off, never in the
\* end of the loop; the back-off lasts min(interval * 2, 300) seconds and is
\* followed by the interval sleep of the next cycle; the loop ends only by a
\* cancellation, and a cancellation requested while the task is suspended in
\* the interval sleep, in the hook or in the back-off sleep ends it.
C30_LoopEndsOnlyOnCancel ==
    /\ [][(pollpc = "hook" /\ pollpc' # "hook" /\ ~poll_cancel)
            => pollpc' \in {"sleep", "backoff"}]_vars
    /\ [][(pollpc # "backoff" /\ pollpc' = "backoff")
            => /\ pollpc = "hook"
               /\ backoff_for' = (IF interval_seconds * 2 <= 300
                                  THEN interval_seconds * 2
                                  ELSE 300)]_vars
    /\ [][(pollpc = "backoff" /\ pollpc' # "backoff" /\ ~poll_cancel)
            => pollpc' = "sleep" /\ cycle' = cycle]_vars
    /\ [][(pollpc # "idle" /\ pollpc' = "idle") => poll_cancel]_vars
    /\ \A pc \in LoopSuspensions :
          (poll_cancel /\ pollpc = pc) ~> (pollpc = "idle")

\* With an interval of 200 s a hook call raised, the loop backed off the
\* capped 300 s, ran a second cycle and was ended by stop_polling.
C30_Witness ==
    /\ interval_seconds = 200
    /\ backoff_for = PollBackoffCap
    /\ cycle = 2
    /\ last_poll_time
    /\ pollpc = "idle"
    /\ stopped

\* The removals among the updates of a log.
RemovalsIn(log) ==
    {i \in DOMAIN log : log[i].update_type = "reaction_removed"}

\* C32: among the updates of one poll cycle no reaction-added update follows
\* a reaction-removed one, and removals are emitted only by the step that
\* ends the cycle, when no channel and no post is left to traverse.
C32_AdditionsBeforeRemovals ==
    /\ [](\A i \in DOMAIN emitted : \A j \in DOMAIN emitted :
             (i < j /\ i \in RemovalsIn(emitted)) => j \in RemovalsIn(emitted))
    /\ [][RemovalsIn(emitted') # {}
             => \/ emitted' = emitted
                \/ /\ RemovalsIn(emitted) = {}
                   /\ pollpc # "sleep"
                   /\ pollpc' = "sleep"
                   /\ channels_to_poll = {}
                   /\ posts_to_poll = {}]_vars

\* A cycle reported an added reaction and then a removed one.
C32_Witness ==
    /\ pollpc = "sleep"
    /\ Len(emitted) >= 2
    /\ emitted[1].update_type = "reaction_added"
    /\ emitted[Len(emitted)].update_type = "reaction_removed"

\* C33: the reaction cache changes only in the step that ends a poll cycle
\* all of whose fetches answered; a cycle in which a fetch failed, like
\* subscribe and unsubscribe, leaves it as it was.
C33_CacheChangesOnSuccess ==
    [][known_reactions' # known_reactions
          => /\ pollpc # "sleep"
             /\ pollpc' = "sleep"
             /\ cycleRead']_vars

\* No start_polling or stop_polling call is suspended.
PollCallsReturned == stoppc = "idle"

\* C34: a live poll loop is the task the resource references, which is what
\* keeps start_polling from spawning a second one beside it, and once a
\* stop_polling call has returned with no other call pending no poll loop
\* runs.
C34_OneReferencedLoop ==
    /\ [](pollpc # "idle" => polling_task = "set")
    /\ []((stopped /\ PollCallsReturned) => pollpc = "idle")

\* C36: against a remote state that does not change, so that every remote
\* reaction exists throughout, no poll cycle emits a reaction_removed update
\* for a remote reaction, whichever fetches fail.
C36_NoFalseRemoval ==
    \A i \in DOMAIN emitted :
        emitted[i].update_type = "reaction_removed"
            => UpdateKey(emitted[i]) \notin ExpectedKeys(ScopeRemote)

====
